---- MODULE Spec2Model ----
(***************************************************************************)
(* Model of the WoS backlog application (decramy/WoS, Django).             *)
(*                                                                         *)
(* State: the Story table, the configured value/cost factors, the score    *)
(* rows (StoryValueFactorScore / StoryCostFactorScore), the class-level    *)
(* factor-id caches of Story, and the outcome of the last request.         *)
(*                                                                         *)
(* Conventions                                                             *)
(*  - a text field is a sequence of characters over {" ", "a", "B"};       *)
(*    strip() is modelled on the characters.                               *)
(*  - a nullable foreign key / datetime holds 0 for None; answer ids and   *)
(*    set datetimes are positive.                                          *)
(*  - a number computed by the scoring code is an exact rational           *)
(*    [n, d] with d > 0 (Python computes it in binary floating point; the  *)
(*    bounds keep every quotient far from a rounding boundary, see Round2).*)
(***************************************************************************)
EXTENDS Integers, Sequences, FiniteSets, TLC

VARIABLES
    stories,    \* Story table: story id -> row
    vfactors,   \* ids of the configured ValueFactor rows
    cfactors,   \* ids of the configured CostFactor rows
    vscores,    \* StoryValueFactorScore: story id -> (value factor id -> answer id, 0 = None)
    cscores,    \* StoryCostFactorScore:  story id -> (cost factor id  -> answer id, 0 = None)
    cachedV,    \* Story._cached_value_factor_ids (process-wide, survives requests)
    cachedC,    \* Story._cached_cost_factor_ids
    last,       \* the last request: operation, arguments, response
    vranks,     \* StoryValueFactorScore.relative_rank: <<story id, factor id>> -> rank,
                \* for the rows whose rank is not None
    cranks,     \* StoryCostFactorScore.relative_rank, likewise
    vrelative,  \* ids of the value factors with scoring_mode = 'relative'
    crelative,  \* ids of the cost factors with scoring_mode = 'relative'
    vseq,       \* the highest id the ValueFactor table has assigned
    cseq,       \* the highest id the CostFactor table has assigned
    deps,       \* StoryDependency table: row id -> [story, depends_on]
    epics,      \* Epic table (src/WoS/backlog): epic id -> [archived]
    epic_stories \* Story table of src/WoS/backlog: story id -> [epic, archived]

ranking == <<vranks, cranks, vrelative, crelative>>
sequences == <<vseq, cseq>>
epic_tables == <<epics, epic_stories>>
vars == <<stories, vfactors, cfactors, vscores, cscores, cachedV, cachedC, last,
          vranks, cranks, vrelative, crelative, vseq, cseq, deps, epics, epic_stories>>

-----------------------------------------------------------------------------
(* Bounds *)

MaxStories == 1        \* stories created in one run of the system specifications
MaxVF == 2             \* value factors the configuration can grow to
MaxCF == 1             \* cost factors the configuration can grow to
NumScoreVF == 3        \* value factors configured in the scoring specification
NumScoreCF == 1        \* cost factors configured in the scoring specification
MaxFormScores == 1     \* score fields (vf_<id>, cf_<id>) carried by one submitted form

StoryIds == 1..MaxStories

\* Scores of the answers every factor offers, in the order of the answer ids.
AnswerScores == <<0, 1, 3, 7, -1>>
NumAnswers == Len(AnswerScores)

None == 0

-----------------------------------------------------------------------------
(* Text *)

SP == " "
Texts == {<<>>, <<SP>>, <<"a">>}

RECURSIVE lstrip(_)
lstrip(t) == IF t # <<>> /\ Head(t) = SP THEN lstrip(Tail(t)) ELSE t

RECURSIVE rstrip(_)
rstrip(t) ==
    IF t # <<>> /\ t[Len(t)] = SP THEN rstrip(SubSeq(t, 1, Len(t) - 1)) ELSE t

strip(t) == rstrip(lstrip(t))

Digits == {"0", "1", "2", "3", "4", "5", "6", "7", "8", "9"}

DigitValue(c) ==
    CASE c = "0" -> 0 [] c = "1" -> 1 [] c = "2" -> 2 [] c = "3" -> 3 [] c = "4" -> 4
      [] c = "5" -> 5 [] c = "6" -> 6 [] c = "7" -> 7 [] c = "8" -> 8 [] c = "9" -> 9

\* int(text) of a text of digits.
RECURSIVE IntOf(_)
IntOf(t) ==
    IF t = <<>> THEN 0
    ELSE 10 * IntOf(SubSeq(t, 1, Len(t) - 1)) + DigitValue(t[Len(t)])

\* int(text) succeeds: digits, with blanks around them.  (Signs and underscores
\* are not among the characters.)
IsInt(t) == strip(t) # <<>> /\ \A i \in DOMAIN strip(t) : strip(t)[i] \in Digits

\* The truth value of the string without trimming.
FilledUntrimmed(t) == t # <<>>

\* Python truth value of `x and x.strip()` for a string x.
filled(t) == strip(t) # <<>>

-----------------------------------------------------------------------------
(* Factor configuration: sections and answers *)

\* Factors 1,2 belong to section 1, factors 3,4 to section 2, ...
VSectionOf(f) == (f + 1) \div 2
CSectionOf(f) == (f + 1) \div 2

\* Answer ids of factor f: NumAnswers consecutive ids, one per entry of AnswerScores.
AnswersOf(f) == ((f - 1) * NumAnswers + 1)..(f * NumAnswers)
FirstAnswer(f) == (f - 1) * NumAnswers + 1
AnswerFactor(a) == ((a - 1) \div NumAnswers) + 1
AnswerScore(a) == AnswerScores[((a - 1) % NumAnswers) + 1]

\* The lookup by id alone, without valuefactor=vf.
AnswerLookupById(ans_id, f) == IF ans_id >= 1 THEN ans_id ELSE None

\* ValueFactorAnswer.objects.filter(id=ans_id, valuefactor=vf).first(): the answer id,
\* or None (0) when no such answer of that factor exists.
AnswerLookup(ans_id, f) ==
    IF ans_id >= 1 /\ ans_id \in AnswersOf(f) THEN ans_id ELSE None

MaxId(set) == IF set = {} THEN 0 ELSE CHOOSE m \in set : \A n \in set : n <= m

\* A class-level cache attribute: None (not loaded), or the set it was loaded with.
NoCache == [loaded |-> FALSE, ids |-> {}]

-----------------------------------------------------------------------------
(* Story: derived status, save, score rows *)

\* A Story row with the field defaults of the model.
NewStory(title, goal, workitems) ==
    [title |-> title, goal |-> goal, workitems |-> workitems, blocked |-> <<>>,
     planned |-> None, started |-> None, finished |-> None,
     archived |-> FALSE, review_required |-> FALSE, status |-> "new", labels |-> {}]

\* Story._get_all_value_factor_ids(): the cached set once loaded, else the table.
all_value_factor_ids == IF cachedV.loaded THEN cachedV.ids ELSE vfactors
all_cost_factor_ids == IF cachedC.loaded THEN cachedC.ids ELSE cfactors

\* Factor ids having a score row with a defined answer.
DefinedIds(rows) == {f \in DOMAIN rows : rows[f] # None}

\* Does computed_status get as far as reading the factor-id caches?
ReadsFactorIds(st) ==
    /\ ~filled(st.blocked)
    /\ st.finished = None /\ st.started = None /\ st.planned = None
    /\ filled(st.title) /\ filled(st.goal) /\ filled(st.workitems)

\* computed_status with 'done' tested before 'blocked'.
computed_status_done_first(st, vrows, crows) ==
    IF st.finished # None THEN "done"
    ELSE IF filled(st.blocked) THEN "blocked"
    ELSE IF st.started # None THEN "started"
    ELSE IF st.planned # None THEN "planned"
    ELSE IF ~(filled(st.title) /\ filled(st.goal) /\ filled(st.workitems)) THEN "idea"
    ELSE IF ~(all_value_factor_ids \subseteq DefinedIds(vrows)
              /\ all_cost_factor_ids \subseteq DefinedIds(crows)) THEN "idea"
    ELSE "ready"

\* computed_status without the has_goal test.
computed_status_no_goal(st, vrows, crows) ==
    IF filled(st.blocked) THEN "blocked"
    ELSE IF st.finished # None THEN "done"
    ELSE IF st.started # None THEN "started"
    ELSE IF st.planned # None THEN "planned"
    ELSE IF ~(filled(st.title) /\ filled(st.workitems)) THEN "idea"
    ELSE IF ~(all_value_factor_ids \subseteq DefinedIds(vrows)
              /\ all_cost_factor_ids \subseteq DefinedIds(crows)) THEN "idea"
    ELSE "ready"

\* Story.computed_status of an in-memory story object st whose score rows are
\* vrows / crows.
computed_status_of(st, vrows, crows) ==
    IF filled(st.blocked) THEN "blocked"
    ELSE IF st.finished # None THEN "done"
    ELSE IF st.started # None THEN "started"
    ELSE IF st.planned # None THEN "planned"
    ELSE IF ~(filled(st.title) /\ filled(st.goal) /\ filled(st.workitems)) THEN "idea"
    ELSE IF ~(all_value_factor_ids \subseteq DefinedIds(vrows)
              /\ all_cost_factor_ids \subseteq DefinedIds(crows)) THEN "idea"
    ELSE "ready"

computed_status(s) == computed_status_of(stories[s], vscores[s], cscores[s])

\* The caches after computed_status was evaluated on each story object of sts.
CacheVAfter(sts) ==
    IF \E st \in sts : ReadsFactorIds(st)
    THEN [loaded |-> TRUE, ids |-> all_value_factor_ids] ELSE cachedV
CacheCAfter(sts) ==
    IF \E st \in sts : ReadsFactorIds(st)
    THEN [loaded |-> TRUE, ids |-> all_cost_factor_ids] ELSE cachedC

\* Story.save() storing the status 'refined' as soon as the goal is filled.
StorySaveGoalOnly(st) ==
    [st EXCEPT !.status = IF filled(st.goal) THEN "refined" ELSE "new"]

\* Story.save(): the stored status follows goal and workitems.
StorySave(st) ==
    [st EXCEPT !.status =
        IF filled(st.goal) /\ filled(st.workitems) THEN "refined" ELSE "new"]

\* ensure_scores_for_story (post_save, created=True): one row per factor, answer=None.
ensure_value_scores == [f \in vfactors |-> None]
ensure_cost_scores == [f \in cfactors |-> None]

\* objects.update_or_create(story, factor, defaults={"answer": a}) on a story's rows.
UpdateOrCreate(rows, f, a) == [g \in DOMAIN rows \cup {f} |-> IF g = f THEN a ELSE rows[g]]

NoOut == <<>>
\* The score fields a request carried, kept with its outcome.
Submitted(vf, cf) == [vf |-> vf, cf |-> cf]
NoHistory == <<>>
Request(op, s, arg, code, history, out) ==
    [op |-> op, story |-> s, arg |-> arg, code |-> code, history |-> history, out |-> out]

-----------------------------------------------------------------------------
(* History.  The StoryHistory table is append-only and no handler reads it    *)
(* back except to display it; the model keeps the rows the last request      *)
(* appended (last.history).  Values are sequences of strings; None and ''    *)
(* are both stored as None, written <<>>.                                    *)

\* track_story_change: the rows it appends (none when the string forms agree).
track_story_change(s, field_name, old_value, new_value) ==
    IF old_value # new_value
    THEN <<[story |-> s, field_name |-> field_name,
            old_value |-> old_value, new_value |-> new_value]>>
    ELSE <<>>

\* str.upper() of a computed status.
Upper(status) ==
    CASE status = "idea" -> <<"IDEA">>
      [] status = "ready" -> <<"READY">>
      [] status = "planned" -> <<"PLANNED">>
      [] status = "started" -> <<"STARTED">>
      [] status = "done" -> <<"DONE">>
      [] status = "blocked" -> <<"BLOCKED">>

\* A datetime is held as its minute, the resolution of strftime('%Y-%m-%d %H:%M').
Strftime(ts) == IF ts = None THEN <<>> ELSE <<ToString(ts)>>

\* f"{answer.score}" of a score row's answer, 'Undefined' without one.
ScoreStr(rows, f) ==
    IF f \in DOMAIN rows /\ rows[f] # None
    THEN <<ToString(AnswerScore(rows[f]))>> ELSE <<"Undefined">>

-----------------------------------------------------------------------------
(* Operations *)

\* The id of the next Story row.  (The id of a deleted story may be taken again:
\* nothing of a deleted story is kept.)
NextId == MaxId(DOMAIN stories) + 1

\* The table t with row s written.
Put(t, s, row) == [x \in DOMAIN t \cup {s} |-> IF x = s THEN row ELSE t[x]]

\* Story.objects.create(title=, goal=, workitems=): save, then the post_save signal.
StoryCreate(title, goal, workitems) ==
    /\ NextId <= MaxStories
    /\ stories' = Put(stories, NextId, StorySave(NewStory(title, goal, workitems)))
    /\ vscores' = Put(vscores, NextId, ensure_value_scores)
    /\ cscores' = Put(cscores, NextId, ensure_cost_scores)
    /\ last' = Request("create", NextId, "", 200, NoHistory, Submitted(<<>>, <<>>))
    /\ UNCHANGED <<vfactors, cfactors, cachedV, cachedC, ranking, sequences, deps, epic_tables>>

\* ValueFactor.objects.create(...) / the ValueFactor admin: a new factor, no score rows.
AddValueFactor ==
    /\ vseq < MaxVF
    /\ vfactors' = vfactors \cup {vseq + 1}
    /\ vseq' = vseq + 1
    /\ last' = Request("add_value_factor", 0, "", 200, NoHistory, NoOut)
    /\ UNCHANGED <<stories, cfactors, vscores, cscores, cachedV, cachedC, ranking, cseq, deps, epic_tables>>

AddCostFactor ==
    /\ cseq < MaxCF
    /\ cfactors' = cfactors \cup {cseq + 1}
    /\ cseq' = cseq + 1
    /\ last' = Request("add_cost_factor", 0, "", 200, NoHistory, NoOut)
    /\ UNCHANGED <<stories, vfactors, vscores, cscores, cachedV, cachedC, ranking, vseq, deps, epic_tables>>

\* The rows of table t (story id -> factor id -> answer) without those of factor f.
WithoutFactor(t, f) == [s \in DOMAIN t |-> [g \in DOMAIN t[s] \ {f} |-> t[s][g]]]

\* The ranks without those of the rows of factor f.
RanksWithoutFactor(ranks, f) == [k \in {x \in DOMAIN ranks : x[2] # f} |-> ranks[k]]

\* Deleting a ValueFactor in the admin: its score rows go with it (on_delete=CASCADE).
DeleteValueFactor(f) ==
    /\ f \in vfactors
    /\ vfactors' = vfactors \ {f}
    /\ vscores' = WithoutFactor(vscores, f)
    /\ vranks' = RanksWithoutFactor(vranks, f)
    /\ vrelative' = vrelative \ {f}
    /\ last' = Request("delete_value_factor", 0, "", 200, NoHistory, NoOut)
    /\ UNCHANGED <<stories, cfactors, cscores, cachedV, cachedC, cranks, crelative,
                   sequences, deps, epic_tables>>

DeleteCostFactor(f) ==
    /\ f \in cfactors
    /\ cfactors' = cfactors \ {f}
    /\ cscores' = WithoutFactor(cscores, f)
    /\ cranks' = RanksWithoutFactor(cranks, f)
    /\ crelative' = crelative \ {f}
    /\ last' = Request("delete_cost_factor", 0, "", 200, NoHistory, NoOut)
    /\ UNCHANGED <<stories, vfactors, vscores, cachedV, cachedC, vranks, vrelative,
                   sequences, deps, epic_tables>>

\* The dashboard looking at every story, archived or not.
DashboardStoriesAll == DOMAIN stories

\* Story.objects.filter(archived=False) of the dashboard.
DashboardStories == {s \in DOMAIN stories : ~stories[s].archived}

\* dashboard (GET): needs_scoring from the factor tables, needs_refinement from
\* computed_status of every non-archived story, review_required from the flag.
\* (The rotting list, taken from the same stories, needs ages of days and is not
\* modelled.)
dashboard ==
    /\ UNCHANGED <<ranking, sequences, deps, epic_tables>>
    /\ LET shown == DashboardStories
           needs_scoring == {s \in shown :
               \/ vfactors \ DefinedIds(vscores[s]) # {}
               \/ cfactors \ DefinedIds(cscores[s]) # {}}
           computed == [s \in shown |-> computed_status(s)]
       IN /\ cachedV' = CacheVAfter({stories[s] : s \in shown})
          /\ cachedC' = CacheCAfter({stories[s] : s \in shown})
          /\ last' = Request("dashboard", 0, "", 200, NoHistory,
                             [needs_scoring |-> needs_scoring,
                              needs_refinement |-> {s \in shown : computed[s] = "idea"},
                              review_required |->
                                  {s \in shown : stories[s].review_required},
                              computed |-> computed])
          /\ UNCHANGED <<stories, vfactors, cfactors, vscores, cscores>>

-----------------------------------------------------------------------------
(* Kanban *)

MaxMinute == 1         \* minutes timezone.now() can show in one run

KanbanTargets == {"backlog", "planned", "doing", "blocked", "done"}

\* timezone.now(): not before any stored datetime.
Clock ==
    LET set == {stories[s].planned : s \in DOMAIN stories}
               \cup {stories[s].started : s \in DOMAIN stories}
               \cup {stories[s].finished : s \in DOMAIN stories} \cup {1}
    IN CHOOSE m \in set : \A n \in set : n <= m

\* kanban_move storing the blocked reason as submitted, without the 'Blocked' default.
KanbanApplyNoDefault(st, target, blocked_reason, now) ==
    CASE target = "backlog" ->
            [st EXCEPT !.planned = None, !.started = None, !.finished = None,
                       !.blocked = <<>>]
      [] target = "planned" -> [st EXCEPT !.planned = now, !.blocked = <<>>]
      [] target = "doing" -> [st EXCEPT !.started = now, !.blocked = <<>>]
      [] target = "blocked" -> [st EXCEPT !.blocked = blocked_reason]
      [] target = "done" -> [st EXCEPT !.finished = now, !.blocked = <<>>]

\* kanban_move moving to the backlog without clearing the finished date.
KanbanApplyKeepFinished(st, target, blocked_reason, now) ==
    CASE target = "backlog" ->
            [st EXCEPT !.planned = None, !.started = None, !.blocked = <<>>]
      [] target = "planned" -> [st EXCEPT !.planned = now, !.blocked = <<>>]
      [] target = "doing" -> [st EXCEPT !.started = now, !.blocked = <<>>]
      [] target = "blocked" ->
            [st EXCEPT !.blocked = IF blocked_reason # <<>> THEN blocked_reason
                                   ELSE <<"B">>]
      [] target = "done" -> [st EXCEPT !.finished = now, !.blocked = <<>>]

\* The story object after kanban_move applied the target column.
KanbanApply(st, target, blocked_reason, now) ==
    CASE target = "backlog" ->
            [st EXCEPT !.planned = None, !.started = None, !.finished = None,
                       !.blocked = <<>>]
      [] target = "planned" -> [st EXCEPT !.planned = now, !.blocked = <<>>]
      [] target = "doing" -> [st EXCEPT !.started = now, !.blocked = <<>>]
      [] target = "blocked" ->
            [st EXCEPT !.blocked = IF blocked_reason # <<>> THEN blocked_reason
                                   ELSE <<"B">>]
      [] target = "done" -> [st EXCEPT !.finished = now, !.blocked = <<>>]

\* The history rows of a date field: the datetimes differ (a datetime set by this
\* request differs from the stored one) and so do their minute strings.
DateChange(s, field_name, old, new, assigned) ==
    IF assigned \/ old # new
    THEN track_story_change(s, field_name, Strftime(old), Strftime(new))
    ELSE <<>>

\* A 'Status (Kanban)' row written whether or not the status changed.
StatusChangeAlways(s, old_status, new_status) ==
    <<[story |-> s, field_name |-> <<"Status (Kanban)">>,
       old_value |-> Upper(old_status), new_value |-> Upper(new_status)]>>

\* The 'Status (Kanban)' history row of kanban_move, written when the computed
\* status differs.
StatusChange(s, old_status, new_status) ==
    IF old_status # new_status
    THEN track_story_change(s, <<"Status (Kanban)">>, Upper(old_status), Upper(new_status))
    ELSE <<>>

\* kanban_move looking the story up before it looks at the parameters.
KanbanCodeLookupFirst(story_id, target) ==
    IF story_id \notin DOMAIN stories THEN 404
    ELSE IF target = "" THEN 400
    ELSE IF target \notin KanbanTargets THEN 404
    ELSE 200

\* The status code of kanban_move: 400 for a missing parameter, then
\* get_object_or_404, then 400 for an invalid target.
KanbanCode(story_id, target) ==
    IF story_id = 0 \/ target = "" THEN 400
    ELSE IF story_id \notin DOMAIN stories THEN 404
    ELSE IF target \notin KanbanTargets THEN 400
    ELSE 200

\* kanban_move (POST): story_id 0 stands for a missing story_id, target "" for a
\* missing target; blocked_reason arrives stripped.
kanban_move(story_id, target, blocked_reason, now) ==
    /\ UNCHANGED <<ranking, sequences, deps, epic_tables>>
    /\ IF story_id = 0 \/ target = "" \/ story_id \notin DOMAIN stories
       THEN /\ last' = Request("kanban_move", story_id, target,
                               KanbanCode(story_id, target), NoHistory, NoOut)
            /\ UNCHANGED <<stories, vfactors, cfactors, vscores, cscores, cachedV, cachedC>>
       ELSE LET old == stories[story_id]
                old_status == computed_status(story_id)
            IN IF target \notin KanbanTargets
               THEN /\ last' = Request("kanban_move", story_id, target,
                                       KanbanCode(story_id, target), NoHistory, NoOut)
                    /\ cachedV' = CacheVAfter({old})
                    /\ cachedC' = CacheCAfter({old})
                    /\ UNCHANGED <<stories, vfactors, cfactors, vscores, cscores>>
               ELSE LET story == StorySave(KanbanApply(old, target, blocked_reason, now))
                        new_status ==
                            computed_status_of(story, vscores[story_id], cscores[story_id])
                        history ==
                            StatusChange(story_id, old_status, new_status)
                            \o DateChange(story_id, <<"Planned">>, old.planned,
                                          story.planned, target = "planned")
                            \o DateChange(story_id, <<"Started">>, old.started,
                                          story.started, target = "doing")
                            \o DateChange(story_id, <<"Finished">>, old.finished,
                                          story.finished, target = "done")
                            \o (IF old.blocked # story.blocked
                                THEN track_story_change(story_id, <<"Blocked">>,
                                                        old.blocked, story.blocked)
                                ELSE <<>>)
                    IN /\ stories' = Put(stories, story_id, story)
                       /\ cachedV' = CacheVAfter({old, story})
                       /\ cachedC' = CacheCAfter({old, story})
                       /\ last' = Request("kanban_move", story_id, target, 200, history,
                                          [status |-> new_status])
                       /\ UNCHANGED <<vfactors, cfactors, vscores, cscores>>

-----------------------------------------------------------------------------
(* Scoring.  Numbers are exact rationals [n |-> numerator, d |-> denominator],  *)
(* d > 0.                                                                       *)

Rat(n, d) == [n |-> n, d |-> d]
RAdd(x, y) == Rat(x.n * y.d + y.n * x.d, x.d * y.d)
REq(x, y) == x.n * y.d = y.n * x.d
RLess(x, y) == x.n * y.d < y.n * x.d
RPositive(x) == x.n > 0
\* x / y for y > 0
RDiv(x, y) == Rat(x.n * y.d, x.d * y.n)
\* x / y for y # 0
RDivSigned(x, y) ==
    IF y.n > 0 THEN Rat(x.n * y.d, x.d * y.n) ELSE Rat(-(x.n * y.d), x.d * (-y.n))

\* Two decimals by truncation.
Round2Truncated(x) == Rat((100 * x.n) \div x.d, 100)

\* round(x, 2), in hundredths: the nearest multiple of 1/100, a tie going to the
\* even one.  Python rounds the binary float nearest to x; the two agree unless x
\* is a tie whose float is inexact, and the ties the bounds reach are multiples
\* of 1/8, which floats hold exactly.
Round2(x) ==
    LET q == (100 * x.n) \div x.d
        r == 100 * x.n - q * x.d
    IN IF 2 * r < x.d THEN Rat(q, 100)
       ELSE IF 2 * r > x.d THEN Rat(q + 1, 100)
       ELSE IF q % 2 = 0 THEN Rat(q, 100) ELSE Rat(q + 1, 100)

\* The factors of one section that have a defined score: the code's `vals` has one
\* entry for each.  sections maps the configured factors to their sections.
SectionVals(rows, sections, section) ==
    {f \in DOMAIN sections \cap DefinedIds(rows) : sections[f] = section}

SumVals(rows, fs) ==
    LET RECURSIVE Sum(_)
        Sum(S) == IF S = {} THEN 0
                  ELSE LET f == CHOOSE f \in S : TRUE
                       IN AnswerScore(rows[f]) + Sum(S \ {f})
    IN Sum(fs)

\* The section's scores summed, not averaged.
SectionSum(rows, fs) == Rat(SumVals(rows, fs), 1)

\* sum(vals) / len(vals)
SectionAvg(rows, fs) == Rat(SumVals(rows, fs), Cardinality(fs))

\* The sum of the averages of the sections 1..n that have a defined score.
RECURSIVE SumSectionAvgs(_, _, _)
SumSectionAvgs(rows, sections, n) ==
    IF n = 0 THEN Rat(0, 1)
    ELSE LET fs == SectionVals(rows, sections, n)
             before == SumSectionAvgs(rows, sections, n - 1)
         IN IF fs # {} THEN RAdd(before, SectionAvg(rows, fs)) ELSE before

NumSections(sections) == MaxId({sections[f] : f \in DOMAIN sections})

\* The section of every configured factor.
VSections == [f \in vfactors |-> VSectionOf(f)]
CSections == [f \in cfactors |-> CSectionOf(f)]

TotalValue(vrows) == SumSectionAvgs(vrows, VSections, NumSections(VSections))
TotalCost(crows) == SumSectionAvgs(crows, CSections, NumSections(CSections))

\* _calculate_story_score(story): value, cost, result.
_calculate_story_score(vrows, crows) ==
    LET total_value == TotalValue(vrows)
        total_cost == TotalCost(crows)
    IN [value |-> total_value, cost |-> total_cost,
        result |-> IF RPositive(total_cost) THEN Round2(RDiv(total_value, total_cost))
                   ELSE IF RPositive(total_value) THEN total_value ELSE Rat(0, 1)]

\* report_view's row of a story: value_sum, cost_sum, result (has_result is FALSE
\* for None) and result_class.
ReportRow(vrows, crows) ==
    LET value_sum == TotalValue(vrows)
        cost_sum == TotalCost(crows)
        has_result == cost_sum.n # 0
        result == IF has_result THEN RDivSigned(value_sum, cost_sum) ELSE Rat(0, 1)
    IN [value_sum |-> value_sum, cost_sum |-> cost_sum,
        has_result |-> has_result, result |-> result,
        result_class |-> IF ~has_result THEN "neutral"
                         ELSE IF ~RLess(result, Rat(1, 1)) THEN "good" ELSE "bad"]

\* The column of the board a computed status is shown in ("" for none).
KanbanColumn(status) ==
    CASE status = "ready" -> "backlog"
      [] status = "planned" -> "planned"
      [] status = "started" -> "doing"
      [] status = "blocked" -> "blocked"
      [] status = "done" -> "done"
      [] OTHER -> ""

\* kanban_view (GET): a card with the score of every non-archived story, placed by
\* computed_status (the order of the cards in a column is not modelled).
kanban_view ==
    /\ UNCHANGED <<ranking, sequences, deps, epic_tables>>
    /\ LET shown == {s \in DOMAIN stories : ~stories[s].archived}
       IN /\ cachedV' = CacheVAfter({stories[s] : s \in shown})
          /\ cachedC' = CacheCAfter({stories[s] : s \in shown})
          /\ last' = Request("kanban_view", 0, "", 200, NoHistory,
                 [cards |-> [s \in shown |-> _calculate_story_score(vscores[s], cscores[s])],
                  column |-> [s \in shown |-> KanbanColumn(computed_status(s))]])
          /\ UNCHANGED <<stories, vfactors, cfactors, vscores, cscores>>

\* report_view (GET): a row for every non-archived story, or with a status filter
\* for those of that computed status.
report_view(status_filter) ==
    /\ UNCHANGED <<ranking, sequences, deps, epic_tables>>
    /\ LET all == {s \in DOMAIN stories : ~stories[s].archived}
           shown == IF status_filter # "" THEN {s \in all : computed_status(s) = status_filter}
                    ELSE all
       IN /\ cachedV' = IF status_filter # "" THEN CacheVAfter({stories[s] : s \in all})
                        ELSE cachedV
          /\ cachedC' = IF status_filter # "" THEN CacheCAfter({stories[s] : s \in all})
                        ELSE cachedC
          /\ last' = Request("report_view", 0, status_filter, 200, NoHistory,
                 [rows |-> [s \in shown |-> ReportRow(vscores[s], cscores[s])]])
          /\ UNCHANGED <<stories, vfactors, cfactors, vscores, cscores>>

-----------------------------------------------------------------------------
(* Bulk actions of the story list *)

NumLabels == 1         \* rows of the Label table

\* The Label table: label l is named "L<l>".
LabelIds == 1..NumLabels

\* ', '.join(sorted(names)) of the labels ids.
RECURSIVE LabelNames(_)
LabelNames(ids) ==
    IF ids = {} THEN <<>>
    ELSE LET l == MaxId(ids)
             name == <<"L" \o ToString(l)>>
         IN IF ids = {l} THEN name ELSE LabelNames(ids \ {l}) \o <<", ">> \o name

\* The rows of the stories ids one after the other, in id order.
RECURSIVE ConcatRows(_, _)
ConcatRows(rows, ids) ==
    IF ids = {} THEN <<>>
    ELSE LET s == MaxId(ids) IN ConcatRows(rows, ids \ {s}) \o rows[s]

\* The ranks without those of the rows of the stories ids.
RanksWithoutStories(ranks, ids) ==
    [k \in {x \in DOMAIN ranks : x[1] \notin ids} |-> ranks[k]]

\* The dependencies without the rows that name one of the stories ids (both
\* foreign keys are on_delete=CASCADE).
DepsWithoutStories(d, ids) ==
    [k \in {x \in DOMAIN d : d[x].story \notin ids /\ d[x].depends_on \notin ids} |-> d[k]]

\* The ids of a comma-separated list in which a piece counts only when it is
\* nothing but digits.
ParseIdsStrict(pieces) ==
    {IntOf(pieces[k]) : k \in {j \in DOMAIN pieces :
                                  pieces[j] # <<>>
                                  /\ \A i \in DOMAIN pieces[j] : pieces[j][i] \in Digits}}

\* The ids bulk_action parses from story_ids: int(sid.strip()) of every piece of
\* story_ids.split(','), a piece that is no integer being skipped.
ParseIds(pieces) ==
    {IntOf(strip(pieces[k])) : k \in {j \in DOMAIN pieces : IsInt(pieces[j])}}

\* bulk_action (POST): story_ids_str is the sequence of the pieces of the
\* story_ids parameter between its commas, label_ids the parsed label ids (ids of
\* Label rows).
bulk_action(action, story_ids_str, blocked_reason, label_ids) ==
    LET story_ids == ParseIds(story_ids_str)
        found == story_ids \cap DOMAIN stories
        reason == strip(blocked_reason)
        Answer(history) ==
            last' = Request("bulk_action", 0, action, 302, history,
                            [story_ids |-> story_ids_str, blocked_reason |-> blocked_reason,
                             label_ids |-> label_ids])
    IN /\ UNCHANGED <<vfactors, cfactors, cachedV, cachedC, vrelative, crelative, sequences,
                      epic_tables>>
       /\ deps' = IF found # {} /\ action = "delete"
                  THEN DepsWithoutStories(deps, found) ELSE deps
       /\ IF found = {}
          THEN /\ Answer(NoHistory)
               /\ UNCHANGED <<stories, vscores, cscores, vranks, cranks>>
          ELSE IF action = "add_labels" /\ label_ids # {}
          THEN LET rows == [s \in found |->
                             IF label_ids \ stories[s].labels # {}
                             THEN <<[story |-> s, field_name |-> <<"Labels">>,
                                     old_value |-> <<"(added)">>,
                                     new_value |-> LabelNames(label_ids)]>>
                             ELSE <<>>]
               IN /\ stories' = [s \in DOMAIN stories |->
                                   IF s \in found
                                   THEN [stories[s] EXCEPT !.labels = @ \cup label_ids]
                                   ELSE stories[s]]
                  /\ Answer(ConcatRows(rows, found))
                  /\ UNCHANGED <<vscores, cscores, vranks, cranks>>
          ELSE IF action \in {"set_review", "clear_review"}
          THEN /\ stories' = [s \in DOMAIN stories |->
                                IF s \in found
                                THEN [stories[s] EXCEPT
                                         !.review_required = (action = "set_review")]
                                ELSE stories[s]]
               /\ Answer(NoHistory)
               /\ UNCHANGED <<vscores, cscores, vranks, cranks>>
          ELSE IF action = "set_blocked" /\ reason # <<>>
          THEN LET rows == [s \in found |->
                             IF stories[s].blocked # reason
                             THEN <<[story |-> s, field_name |-> <<"Blocked">>,
                                     old_value |-> IF stories[s].blocked # <<>>
                                                   THEN stories[s].blocked
                                                   ELSE <<"(not blocked)">>,
                                     new_value |-> reason]>>
                             ELSE <<>>]
               IN /\ stories' = [s \in DOMAIN stories |->
                                   IF s \in found
                                   THEN StorySave([stories[s] EXCEPT !.blocked = reason])
                                   ELSE stories[s]]
                  /\ Answer(ConcatRows(rows, found))
                  /\ UNCHANGED <<vscores, cscores, vranks, cranks>>
          ELSE IF action \in {"archive", "unarchive"}
          THEN /\ stories' = [s \in DOMAIN stories |->
                                IF s \in found
                                THEN [stories[s] EXCEPT !.archived = (action = "archive")]
                                ELSE stories[s]]
               /\ Answer(NoHistory)
               /\ UNCHANGED <<vscores, cscores, vranks, cranks>>
          ELSE IF action = "delete"
          THEN /\ stories' = [s \in DOMAIN stories \ found |-> stories[s]]
               /\ vscores' = [s \in DOMAIN vscores \ found |-> vscores[s]]
               /\ cscores' = [s \in DOMAIN cscores \ found |-> cscores[s]]
               /\ vranks' = RanksWithoutStories(vranks, found)
               /\ cranks' = RanksWithoutStories(cranks, found)
               /\ Answer(NoHistory)
          ELSE /\ Answer(NoHistory)
               /\ UNCHANGED <<stories, vscores, cscores, vranks, cranks>>

-----------------------------------------------------------------------------
(* The story list *)

StoryListActions == {"archive_story", "unarchive_story", "toggle_review", "delete_story"}

\* story_vf_ids / story_cf_ids of story_list: the factor id of every score row of
\* the story, whatever its answer.
ScoredIds(rows) == DOMAIN rows

\* story_list.  A POST with one of the four actions changes the story of id
\* story_id (0 when the parameter is missing) and redirects; every other request
\* lists the stories whose archived flag is show_archived, filtered by
\* status_filter and review_filter (both after strip()), with the two
\* completeness flags of each.  The search text and the label filter are left at
\* their defaults, which filter nothing; the order of the list is not kept.
story_list(method, action, story_id, show_archived, status_filter, review_filter, sort) ==
    IF method = "POST" /\ action \in StoryListActions
    THEN /\ UNCHANGED <<vfactors, cfactors, cachedV, cachedC, vrelative, crelative,
                        sequences, epic_tables>>
         /\ IF story_id \notin DOMAIN stories
            THEN /\ last' = Request("story_list", story_id, action, 404, NoHistory, NoOut)
                 /\ UNCHANGED <<stories, vscores, cscores, vranks, cranks, deps>>
            ELSE /\ last' = Request("story_list", story_id, action, 302, NoHistory, NoOut)
                 /\ IF action = "delete_story"
                    THEN /\ stories' = [s \in DOMAIN stories \ {story_id} |-> stories[s]]
                         /\ vscores' = [s \in DOMAIN vscores \ {story_id} |-> vscores[s]]
                         /\ cscores' = [s \in DOMAIN cscores \ {story_id} |-> cscores[s]]
                         /\ vranks' = RanksWithoutStories(vranks, {story_id})
                         /\ cranks' = RanksWithoutStories(cranks, {story_id})
                         /\ deps' = DepsWithoutStories(deps, {story_id})
                    ELSE /\ stories' = Put(stories, story_id, StorySave(
                              CASE action = "archive_story" ->
                                      [stories[story_id] EXCEPT !.archived = TRUE]
                                [] action = "unarchive_story" ->
                                      [stories[story_id] EXCEPT !.archived = FALSE]
                                [] action = "toggle_review" ->
                                      [stories[story_id] EXCEPT !.review_required = ~@]))
                         /\ UNCHANGED <<vscores, cscores, vranks, cranks, deps>>
    ELSE LET qs == {s \in DOMAIN stories : stories[s].archived = show_archived}
             by_status == IF status_filter # ""
                          THEN {s \in qs : computed_status(s) = status_filter} ELSE qs
             listed == CASE review_filter = "yes" ->
                               {s \in by_status : stories[s].review_required}
                         [] review_filter = "no" ->
                               {s \in by_status : ~stories[s].review_required}
                         [] OTHER -> by_status
             evaluated == (IF status_filter # "" THEN qs ELSE {})
                          \cup (IF sort = "status" THEN listed ELSE {})
             story_data == [s \in listed |->
                 [details_complete |-> /\ filled(stories[s].title)
                                       /\ filled(stories[s].goal)
                                       /\ filled(stories[s].workitems),
                  scores_complete |-> /\ vfactors \subseteq ScoredIds(vscores[s])
                                      /\ cfactors \subseteq ScoredIds(cscores[s])]]
         IN /\ cachedV' = CacheVAfter({stories[s] : s \in evaluated})
            /\ cachedC' = CacheCAfter({stories[s] : s \in evaluated})
            /\ last' = Request("story_list", 0, "", 200, NoHistory,
                               [stories |-> story_data, show_archived |-> show_archived])
            /\ UNCHANGED <<stories, vfactors, cfactors, vscores, cscores, ranking,
                           sequences, deps, epic_tables>>

-----------------------------------------------------------------------------
(* Relative ranking and the hybrid report.  Normalized scores are exact       *)
(* rationals; Python's floats differ from them by rounding only.              *)

NumRankStories == 3    \* stories of the ranking specification
MaxRank == 3           \* highest rank a ranking request submits
MaxRankItems == 2      \* items in the rankings list of one request
MaxRankedCount == 4    \* highest ranked_count given to _normalize_rank directly

\* _get_factor_score_ranges: min and max of the scores of the factor's answers.
ScoreRange(f) ==
    LET scores == {AnswerScore(a) : a \in AnswersOf(f)}
    IN [min |-> CHOOSE m \in scores : \A n \in scores : m <= n,
        max |-> CHOOSE m \in scores : \A n \in scores : n <= m]

\* relative_rank is not None and > 0
Ranked(ranks, s, f) == <<s, f>> \in DOMAIN ranks /\ ranks[<<s, f>>] > 0

\* _get_ranked_counts(story_ids)[f], with the view's .get(f, 1) default.
RankedCount(ranks, story_ids, f) ==
    LET count == Cardinality({s \in story_ids : Ranked(ranks, s, f)})
    IN IF count = 0 THEN 1 ELSE count

\* _normalize_rank with the interpolation parameter taken as rank / ranked_count.
NormalizeRankFromZero(rank, ranked_count, min_score, max_score, invert) ==
    IF ranked_count <= 1
    THEN Rat(IF invert THEN min_score ELSE max_score, 1)
    ELSE LET d == ranked_count
             step == rank * (max_score - min_score)
         IN IF invert THEN Rat(min_score * d + step, d)
            ELSE Rat(max_score * d - step, d)

\* _normalize_rank(rank, ranked_count, min_score, max_score, invert)
_normalize_rank(rank, ranked_count, min_score, max_score, invert) ==
    IF ranked_count <= 1
    THEN Rat(IF invert THEN min_score ELSE max_score, 1)
    ELSE LET d == ranked_count - 1
             step == (rank - 1) * (max_score - min_score)
         IN IF invert THEN Rat(min_score * d + step, d)
            ELSE Rat(max_score * d - step, d)

\* The hybrid report's `scores` entries of story s, with a relative factor of rank
\* None or <= 0 scored like the story ranked last.
HybridScoresUnrankedLast(s, rows, ranks, factors, relative, story_ids, invert) ==
    LET counted == {f \in factors \cap DOMAIN rows :
                       IF f \in relative THEN TRUE ELSE rows[f] # None}
    IN [f \in counted |->
          IF f \in relative
          THEN LET ranked_count == RankedCount(ranks, story_ids, f)
               IN _normalize_rank(IF Ranked(ranks, s, f) THEN ranks[<<s, f>>]
                                  ELSE ranked_count,
                                  ranked_count,
                                  ScoreRange(f).min, ScoreRange(f).max, invert)
          ELSE Rat(AnswerScore(rows[f]), 1)]

\* The hybrid report's `scores` entries of story s: factor id -> score, for the
\* factors with a row that are absolute with an answer or relative with a rank > 0.
HybridScores(s, rows, ranks, factors, relative, story_ids, invert) ==
    LET counted == {f \in factors \cap DOMAIN rows :
                       IF f \in relative THEN Ranked(ranks, s, f) ELSE rows[f] # None}
    IN [f \in counted |->
          IF f \in relative
          THEN _normalize_rank(ranks[<<s, f>>], RankedCount(ranks, story_ids, f),
                               ScoreRange(f).min, ScoreRange(f).max, invert)
          ELSE Rat(AnswerScore(rows[f]), 1)]

\* factors_detail of the relative factors that are scored: rank, ranked_count, score.
HybridDetail(s, ranks, scores, relative, story_ids) ==
    [f \in {g \in DOMAIN scores \cap relative : Ranked(ranks, s, g)} |->
        [rank |-> ranks[<<s, f>>],
         ranked_count |-> RankedCount(ranks, story_ids, f),
         min |-> ScoreRange(f).min, max |-> ScoreRange(f).max,
         score |-> scores[f]]]

\* sum(scores) for the entries of the factors fs.
RECURSIVE SumScores(_, _)
SumScores(scores, fs) ==
    IF fs = {} THEN Rat(0, 1)
    ELSE LET f == CHOOSE g \in fs : TRUE
         IN RAdd(scores[f], SumScores(scores, fs \ {f}))

\* The sum of sum(scores) / len(scores) over the sections 1..n that have an entry.
RECURSIVE SumHybridAvgs(_, _, _)
SumHybridAvgs(scores, sections, n) ==
    IF n = 0 THEN Rat(0, 1)
    ELSE LET fs == {f \in DOMAIN scores \cap DOMAIN sections : sections[f] = n}
             before == SumHybridAvgs(scores, sections, n - 1)
             total == SumScores(scores, fs)
         IN IF fs # {} THEN RAdd(before, Rat(total.n, total.d * Cardinality(fs)))
            ELSE before

\* A row computed from the value factors the class-level cache of Story holds,
\* state that is no input of the computation.
HybridRowFromCache(s, story_ids) ==
    LET vs == HybridScores(s, vscores[s], vranks, vfactors \cap cachedV.ids, vrelative,
                           story_ids, FALSE)
        cs == HybridScores(s, cscores[s], cranks, cfactors, crelative, story_ids, TRUE)
        value_sum == SumHybridAvgs(vs, VSections, NumSections(VSections))
        cost_sum == SumHybridAvgs(cs, CSections, NumSections(CSections))
        has_result == cost_sum.n # 0
        result == IF has_result THEN RDivSigned(value_sum, cost_sum) ELSE Rat(0, 1)
    IN [value_scores |-> vs, cost_scores |-> cs,
        value_detail |-> HybridDetail(s, vranks, vs, vrelative, story_ids),
        cost_detail |-> HybridDetail(s, cranks, cs, crelative, story_ids),
        value_sum |-> value_sum, cost_sum |-> cost_sum,
        has_result |-> has_result, result |-> result,
        result_class |-> IF ~has_result THEN "neutral"
                         ELSE IF ~RLess(result, Rat(1, 1)) THEN "good" ELSE "bad"]

\* relative_report_view's row of story s among the filtered stories story_ids.
HybridRow(s, story_ids) ==
    LET vs == HybridScores(s, vscores[s], vranks, vfactors, vrelative, story_ids, FALSE)
        cs == HybridScores(s, cscores[s], cranks, cfactors, crelative, story_ids, TRUE)
        value_sum == SumHybridAvgs(vs, VSections, NumSections(VSections))
        cost_sum == SumHybridAvgs(cs, CSections, NumSections(CSections))
        has_result == cost_sum.n # 0
        result == IF has_result THEN RDivSigned(value_sum, cost_sum) ELSE Rat(0, 1)
    IN [value_scores |-> vs, cost_scores |-> cs,
        value_detail |-> HybridDetail(s, vranks, vs, vrelative, story_ids),
        cost_detail |-> HybridDetail(s, cranks, cs, crelative, story_ids),
        value_sum |-> value_sum, cost_sum |-> cost_sum,
        has_result |-> has_result, result |-> result,
        result_class |-> IF ~has_result THEN "neutral"
                         ELSE IF ~RLess(result, Rat(1, 1)) THEN "good" ELSE "bad"]

\* relative_report_view (GET): a row for every non-archived story, or with a status
\* filter for those of that computed status; the ranked counts are taken over the
\* stories shown.  (The label filter is not modelled.)
relative_report_view(status_filter) ==
    LET all == {s \in DOMAIN stories : ~stories[s].archived}
        shown == IF status_filter # "" THEN {s \in all : computed_status(s) = status_filter}
                 ELSE all
    IN /\ cachedV' = IF status_filter # "" THEN CacheVAfter({stories[s] : s \in all})
                     ELSE cachedV
       /\ cachedC' = IF status_filter # "" THEN CacheCAfter({stories[s] : s \in all})
                     ELSE cachedC
       /\ last' = Request("relative_report_view", 0, status_filter, 200, NoHistory,
              [rows |-> [s \in shown |-> HybridRow(s, shown)]])
       /\ UNCHANGED <<stories, vfactors, cfactors, vscores, cscores, ranking, sequences, deps, epic_tables>>

\* QuerySet.update(relative_rank=rank) for each item of rankings (story id -> rank)
\* on the rows of factor f that exist.
UpdateRanks(ranks, rows, f, rankings) ==
    LET hit == {<<s, f>> : s \in {x \in DOMAIN rankings :
                                     x \in DOMAIN rows /\ f \in DOMAIN rows[x]}}
    IN [k \in DOMAIN ranks \cup hit |-> IF k \in hit THEN rankings[k[1]] ELSE ranks[k]]

\* relative_ranking_save (POST): an unknown factor raises and is answered 400.
\* (A rank of null is not among the submitted ranks.)
relative_ranking_save(factor_type, factor_id, rankings) ==
    IF factor_type = "value"
    THEN IF factor_id \notin vfactors
         THEN /\ last' = Request("relative_ranking_save", 0, factor_type, 400,
                                 NoHistory, NoOut)
              /\ UNCHANGED <<stories, vfactors, cfactors, vscores, cscores, cachedV,
                             cachedC, ranking, sequences, deps, epic_tables>>
         ELSE /\ vranks' = UpdateRanks(vranks, vscores, factor_id, rankings)
              /\ last' = Request("relative_ranking_save", 0, factor_type, 200,
                                 NoHistory, NoOut)
              /\ UNCHANGED <<stories, vfactors, cfactors, vscores, cscores, cachedV,
                             cachedC, cranks, vrelative, crelative, sequences, deps, epic_tables>>
    ELSE IF factor_id \notin cfactors
         THEN /\ last' = Request("relative_ranking_save", 0, factor_type, 400,
                                 NoHistory, NoOut)
              /\ UNCHANGED <<stories, vfactors, cfactors, vscores, cscores, cachedV,
                             cachedC, ranking, sequences, deps, epic_tables>>
         ELSE /\ cranks' = UpdateRanks(cranks, cscores, factor_id, rankings)
              /\ last' = Request("relative_ranking_save", 0, factor_type, 200,
                                 NoHistory, NoOut)
              /\ UNCHANGED <<stories, vfactors, cfactors, vscores, cscores, cachedV,
                             cachedC, vranks, vrelative, crelative, sequences, deps, epic_tables>>

\* A call of _normalize_rank on its own: the arguments and the value returned.
normalize_rank_call(rank, ranked_count, min_score, max_score, invert) ==
    /\ last' = Request("_normalize_rank", 0, "", 200, NoHistory,
           [rank |-> rank, ranked_count |-> ranked_count, min_score |-> min_score,
            max_score |-> max_score, invert |-> invert,
            score |-> _normalize_rank(rank, ranked_count, min_score, max_score, invert)])
    /\ UNCHANGED <<stories, vfactors, cfactors, vscores, cscores, cachedV, cachedC,
                   ranking, sequences, deps, epic_tables>>

-----------------------------------------------------------------------------
(* Forms *)

\* A text parameter the POST does not carry.
Absent == <<"absent">>

\* What a score field (vf_<id> / cf_<id>) can carry: -1 stands for text that is
\* no integer, 0 for '' (the Undefined option), a positive number for an answer id.
SubmittedValues == {-1, 0, 1, NumAnswers + 1}

\* The score part of a form: which fields are present, with what value.
ScoreFields(factors) ==
    {<<>>} \cup UNION {[D -> SubmittedValues] : D \in SUBSET factors \ {{}}}

FormFieldCount(form) == Cardinality(DOMAIN form.vf) + Cardinality(DOMAIN form.cf)

\* request.POST.get(name, default)
Param(value, default) == IF value = Absent THEN default ELSE value

\* The for-loop over the factors of refine_story for one factor f whose field is
\* submitted with value v: the rows afterwards and the history rows appended.
RefineScore(s, rows, f, v, label) ==
    IF v = 0
    THEN IF f \in DOMAIN rows /\ rows[f] # None
         THEN [rows |-> UpdateOrCreate(rows, f, None),
               history |-> track_story_change(s, <<label, ToString(f)>>,
                                              ScoreStr(rows, f), <<"Undefined">>)]
         ELSE [rows |-> rows, history |-> <<>>]
    ELSE LET answer == IF v < 0 THEN None ELSE AnswerLookup(v, f)
         IN IF answer # None
            THEN [rows |-> UpdateOrCreate(rows, f, answer),
                  history |-> track_story_change(s, <<label, ToString(f)>>,
                                  ScoreStr(rows, f), <<ToString(AnswerScore(answer))>>)]
            ELSE [rows |-> rows, history |-> <<>>]

\* The loop run over the factors 1..n in the order of their ids.
RECURSIVE RefineScores(_, _, _, _, _, _)
RefineScores(s, rows, factors, fields, label, n) ==
    IF n = 0 THEN [rows |-> rows, history |-> <<>>]
    ELSE LET before == RefineScores(s, rows, factors, fields, label, n - 1)
         IN IF n \in factors /\ n \in DOMAIN fields
            THEN LET step == RefineScore(s, before.rows, n, fields[n], label)
                 IN [rows |-> step.rows, history |-> before.history \o step.history]
            ELSE before

\* ', '.join(names) or '(none)'.
NamesOrNone(ids) == IF ids = {} THEN <<"(none)">> ELSE LabelNames(ids)

\* refine_story (POST, no special action): text fields, blocked, the scores, then
\* the labels (request.POST.getlist('labels'): none when the form has no such field).
refine_story(pk, form) ==
    /\ UNCHANGED <<ranking, sequences, deps, epic_tables>>
    /\ IF pk \notin DOMAIN stories
       THEN /\ last' = Request("refine_story", pk, "", 404, NoHistory, NoOut)
            /\ UNCHANGED <<stories, vfactors, cfactors, vscores, cscores, cachedV, cachedC>>
       ELSE LET old == stories[pk]
                new_labels == IF "labels" \in DOMAIN form THEN form.labels ELSE {}
                story == StorySave(
                    [old EXCEPT !.title = IF form.title # Absent THEN strip(form.title)
                                          ELSE old.title,
                                !.goal = Param(form.goal, old.goal),
                                !.workitems = Param(form.workitems, old.workitems),
                                !.blocked = strip(Param(form.blocked, <<>>)),
                                !.labels = new_labels])
                v == RefineScores(pk, vscores[pk], vfactors, form.vf, "Value", MaxId(vfactors))
                c == RefineScores(pk, cscores[pk], cfactors, form.cf, "Cost", MaxId(cfactors))
                history ==
                    track_story_change(pk, <<"Title">>, old.title, story.title)
                    \o track_story_change(pk, <<"Goal">>, old.goal, story.goal)
                    \o track_story_change(pk, <<"Work items">>, old.workitems, story.workitems)
                    \o track_story_change(pk, <<"Blocked">>, old.blocked, story.blocked)
                    \o v.history \o c.history
                    \o (IF old.labels # new_labels
                        THEN track_story_change(pk, <<"Labels">>, NamesOrNone(old.labels),
                                                NamesOrNone(new_labels))
                        ELSE <<>>)
            IN /\ stories' = Put(stories, pk, story)
               /\ vscores' = Put(vscores, pk, v.rows)
               /\ cscores' = Put(cscores, pk, c.rows)
               /\ last' = Request("refine_story", pk, "", 302, history,
                                  Submitted(form.vf, form.cf))
               /\ UNCHANGED <<vfactors, cfactors, cachedV, cachedC>>

\* The loop over the factors of create_story_refine: '' deletes the row the signal
\* made, an answer of the factor is stored, anything else is ignored.
CreateScores(rows, factors, fields) ==
    LET kept == {f \in DOMAIN rows : ~(f \in factors /\ f \in DOMAIN fields /\ fields[f] = 0)}
    IN [f \in kept |->
          IF f \in DOMAIN fields /\ fields[f] > 0 /\ AnswerLookup(fields[f], f) # None
          THEN AnswerLookup(fields[f], f) ELSE rows[f]]

\* create_story_refine (POST).
create_story_refine(form) ==
    /\ UNCHANGED <<ranking, sequences, deps, epic_tables>>
    /\ LET title == strip(Param(form.title, <<>>))
           goal == strip(Param(form.goal, <<>>))
           workitems == strip(Param(form.workitems, <<>>))
       IN IF title = <<>>
          THEN /\ last' = Request("create_story_refine", 0, "", 200, NoHistory, NoOut)
               /\ UNCHANGED <<stories, vfactors, cfactors, vscores, cscores, cachedV, cachedC>>
          ELSE /\ NextId <= MaxStories
               /\ stories' = Put(stories, NextId,
                      StorySave([StorySave(NewStory(title, goal, workitems))
                                    EXCEPT !.blocked = strip(Param(form.blocked, <<>>))]))
               /\ vscores' = Put(vscores, NextId,
                                 CreateScores(ensure_value_scores, vfactors, form.vf))
               /\ cscores' = Put(cscores, NextId,
                                 CreateScores(ensure_cost_scores, cfactors, form.cf))
               /\ last' = Request("create_story_refine", NextId, "", 302,
                                  <<[story |-> NextId, field_name |-> <<"Story created">>,
                                     old_value |-> <<>>,
                                     new_value |-> <<"Created: ">> \o title]>>,
                                  Submitted(form.vf, form.cf))
               /\ UNCHANGED <<vfactors, cfactors, cachedV, cachedC>>

\* The loop of StoryAdmin.save_model over the factors: cleaned is the form's
\* cleaned_data for the score fields, factor id -> answer id (0 for None).
AdminScores(rows, factors, cleaned) ==
    LET stored == {f \in factors \cap DOMAIN cleaned :
                      cleaned[f] # None /\ AnswerFactor(cleaned[f]) = f}
    IN [f \in DOMAIN rows \cup stored |-> IF f \in stored THEN cleaned[f] ELSE rows[f]]

\* StoryAdmin.save_model: obj.save() (with the post_save signal when the story is
\* new), then the scores.  pk = 0 is the admin's add form.
save_model(pk, title, goal, workitems, vcleaned, ccleaned) ==
    /\ pk = 0 => NextId <= MaxStories
    /\ pk # 0 => pk \in DOMAIN stories
    /\ LET id == IF pk = 0 THEN NextId ELSE pk
           obj == IF pk = 0 THEN NewStory(title, goal, workitems)
                  ELSE [stories[pk] EXCEPT !.title = title, !.goal = goal,
                                           !.workitems = workitems]
           vrows == IF pk = 0 THEN ensure_value_scores ELSE vscores[pk]
           crows == IF pk = 0 THEN ensure_cost_scores ELSE cscores[pk]
       IN /\ stories' = Put(stories, id, StorySave(obj))
          /\ vscores' = Put(vscores, id, AdminScores(vrows, vfactors, vcleaned))
          /\ cscores' = Put(cscores, id, AdminScores(crows, cfactors, ccleaned))
          /\ last' = Request("save_model", id, "", 302, NoHistory,
                             Submitted(vcleaned, ccleaned))
    /\ UNCHANGED <<vfactors, cfactors, cachedV, cachedC, ranking, sequences, deps, epic_tables>>

-----------------------------------------------------------------------------
(* Dependencies and the special actions of refine_story.  A story id arrives  *)
(* as the text of the request parameter: a sequence of digit characters, <<>> *)
(* when the parameter is missing.                                              *)

MaxDepId == 3          \* StoryDependency rows created in one run

\* The ids of the StoryDependency rows with this story and this depends_on.
DepRows(story, depends_on) ==
    {k \in DOMAIN deps : deps[k].story = story /\ deps[k].depends_on = depends_on}

NextDepId == MaxId(DOMAIN deps) + 1

\* str(story_id) == str(depends_on_id) of wbs_add_dependency.
SameStory(story_id, depends_on_id) == story_id = depends_on_id

\* wbs_add_dependency (POST, JSON body).
wbs_add_dependency(story_id, depends_on_id) ==
    LET Answer(code) ==
            last' = Request("wbs_add_dependency", IntOf(story_id), "", code, NoHistory,
                            [story_id |-> story_id, depends_on_id |-> depends_on_id])
    IN /\ UNCHANGED <<stories, vfactors, cfactors, vscores, cscores, cachedV, cachedC,
                      ranking, sequences, epic_tables>>
       /\ IF story_id = <<>> \/ depends_on_id = <<>>
          THEN Answer(400) /\ UNCHANGED deps
          ELSE IF SameStory(story_id, depends_on_id)
          THEN Answer(400) /\ UNCHANGED deps
          ELSE IF IntOf(story_id) \notin DOMAIN stories
                  \/ IntOf(depends_on_id) \notin DOMAIN stories
          THEN Answer(404) /\ UNCHANGED deps
          ELSE IF DepRows(IntOf(story_id), IntOf(depends_on_id)) # {}
          THEN Answer(400) /\ UNCHANGED deps
          ELSE /\ NextDepId <= MaxDepId
               /\ deps' = Put(deps, NextDepId, [story |-> IntOf(story_id),
                                                depends_on |-> IntOf(depends_on_id)])
               /\ Answer(200)

\* wbs_remove_dependency (POST, JSON body): the first matching row is deleted.
wbs_remove_dependency(story_id, depends_on_id) ==
    LET Answer(code) ==
            last' = Request("wbs_remove_dependency", IntOf(story_id), "", code, NoHistory,
                            [story_id |-> story_id, depends_on_id |-> depends_on_id])
        rows == DepRows(IntOf(story_id), IntOf(depends_on_id))
    IN /\ UNCHANGED <<stories, vfactors, cfactors, vscores, cscores, cachedV, cachedC,
                      ranking, sequences, epic_tables>>
       /\ IF story_id = <<>> \/ depends_on_id = <<>>
          THEN Answer(400) /\ UNCHANGED deps
          ELSE IF rows = {}
          THEN Answer(404) /\ UNCHANGED deps
          ELSE /\ deps' = [k \in DOMAIN deps \ {CHOOSE r \in rows : \A q \in rows : r <= q}
                             |-> deps[k]]
               /\ Answer(200)

\* 'Yes' / 'No' of a flag.
YesNo(flag) == IF flag THEN <<"Yes">> ELSE <<"No">>

\* The history row of refine_story's archive_story / unarchive_story.
ArchiveHistory(s, archived) ==
    track_story_change(s, <<"Archived">>, YesNo(~archived), YesNo(archived))

RefineActions ==
    {"add_dependency", "remove_dependency", "archive_story", "unarchive_story",
     "toggle_review", "remove_blocked"}

\* refine_story (POST) with one of its special actions; remove_blocked stands for
\* the remove_blocked button.  dependency_story_id is the text of the parameter
\* of add_dependency, dependency_id the row id given to remove_dependency (0 when
\* missing).
refine_story_action(pk, action, dependency_story_id, dependency_id) ==
    LET Answer(code, history) ==
            last' = Request("refine_story", pk, action, code, history, NoOut)
        dep_story == IntOf(dependency_story_id)
    IN /\ UNCHANGED <<vfactors, cfactors, vscores, cscores, cachedV, cachedC,
                      ranking, sequences, epic_tables>>
       /\ IF pk \notin DOMAIN stories
          THEN Answer(404, NoHistory) /\ UNCHANGED <<stories, deps>>
          ELSE IF action = "add_dependency"
          THEN IF dependency_story_id = <<>>
               THEN Answer(302, NoHistory) /\ UNCHANGED <<stories, deps>>
               ELSE IF dep_story \notin DOMAIN stories
               THEN Answer(404, NoHistory) /\ UNCHANGED <<stories, deps>>
               ELSE IF dep_story = pk \/ DepRows(pk, dep_story) # {}
               THEN Answer(302, NoHistory) /\ UNCHANGED <<stories, deps>>
               ELSE /\ NextDepId <= MaxDepId
                    /\ deps' = Put(deps, NextDepId, [story |-> pk, depends_on |-> dep_story])
                    /\ Answer(302, track_story_change(pk, <<"Dependency added">>, <<>>,
                                                      stories[dep_story].title))
                    /\ UNCHANGED stories
          ELSE IF action = "remove_dependency"
          THEN IF dependency_id \in DOMAIN deps /\ deps[dependency_id].story = pk
               THEN /\ deps' = [k \in DOMAIN deps \ {dependency_id} |-> deps[k]]
                    /\ Answer(302, track_story_change(pk, <<"Dependency removed">>,
                                      stories[deps[dependency_id].depends_on].title, <<>>))
                    /\ UNCHANGED stories
               ELSE Answer(302, NoHistory) /\ UNCHANGED <<stories, deps>>
          ELSE IF action \in {"archive_story", "unarchive_story"}
          THEN LET archived == (action = "archive_story")
               IN /\ stories' = Put(stories, pk,
                                    StorySave([stories[pk] EXCEPT !.archived = archived]))
                  /\ Answer(302, ArchiveHistory(pk, archived))
                  /\ UNCHANGED deps
          ELSE IF action = "toggle_review"
          THEN LET old == stories[pk].review_required
               IN /\ stories' = Put(stories, pk,
                                    StorySave([stories[pk] EXCEPT !.review_required = ~old]))
                  /\ Answer(302, track_story_change(pk, <<"Review required">>,
                                                    YesNo(old), YesNo(~old)))
                  /\ UNCHANGED deps
          ELSE /\ action = "remove_blocked"
               /\ stories' = Put(stories, pk, StorySave([stories[pk] EXCEPT !.blocked = <<>>]))
               /\ Answer(302, track_story_change(pk, <<"Blocked">>, stories[pk].blocked, <<>>))
               /\ UNCHANGED deps

-----------------------------------------------------------------------------
(* Epics (src/WoS/backlog): every story belongs to an epic.  Of a story the   *)
(* epic and the archived flag are kept, of an epic the title and the flag.    *)

MaxEpics == 2          \* epics created in one run
MaxEpicStories == 3    \* stories created in one run

\* The stories of epic e (epic.stories).
StoriesOfEpic(e) == {s \in DOMAIN epic_stories : epic_stories[s].epic = e}

\* The Story table after an epic action that sets the flag of the stories of the
\* epic on archive and on unarchive alike.
EpicStoriesCascadeBoth(action, e) ==
    [s \in DOMAIN epic_stories |->
        IF epic_stories[s].epic = e
        THEN [epic_stories[s] EXCEPT !.archived = (action = "archive_epic")]
        ELSE epic_stories[s]]

\* The Story table after archive_epic / unarchive_epic of epic e:
\* epic.stories.update(archived=True) on archive, nothing on unarchive.
EpicStoriesAfter(action, e) ==
    IF action = "archive_epic"
    THEN [s \in DOMAIN epic_stories |->
             IF epic_stories[s].epic = e THEN [epic_stories[s] EXCEPT !.archived = TRUE]
             ELSE epic_stories[s]]
    ELSE epic_stories

OverviewActions ==
    {"create_epic", "edit_epic", "delete_epic", "archive_epic", "unarchive_epic", ""}

\* overview (POST): epic_id 0 stands for a missing epic_id.  A request no branch
\* handles is answered with the page (200).
overview(action, epic_id, title) ==
    LET Answer(code) ==
            last' = Request("overview", 0, action, code, NoHistory, [epic_id |-> epic_id])
    IN /\ UNCHANGED <<stories, vfactors, cfactors, vscores, cscores, cachedV, cachedC,
                      ranking, sequences, deps>>
       /\ IF action = "create_epic"
          THEN IF strip(title) # <<>>
               THEN /\ MaxId(DOMAIN epics) < MaxEpics
                    /\ epics' = Put(epics, MaxId(DOMAIN epics) + 1,
                                    [title |-> strip(title), archived |-> FALSE])
                    /\ Answer(302)
                    /\ UNCHANGED epic_stories
               ELSE Answer(302) /\ UNCHANGED epic_tables
          ELSE IF action \notin OverviewActions \ {""} \/ epic_id = 0
          THEN Answer(200) /\ UNCHANGED epic_tables
          ELSE IF epic_id \notin DOMAIN epics
          THEN Answer(404) /\ UNCHANGED epic_tables
          ELSE IF action = "edit_epic"
          THEN /\ epics' = IF strip(title) # <<>>
                           THEN [epics EXCEPT ![epic_id].title = strip(title)]
                           ELSE epics
               /\ Answer(302)
               /\ UNCHANGED epic_stories
          ELSE IF action = "delete_epic"
          THEN /\ epics' = [e \in DOMAIN epics \ {epic_id} |-> epics[e]]
               /\ epic_stories' = [s \in DOMAIN epic_stories \ StoriesOfEpic(epic_id)
                                     |-> epic_stories[s]]
               /\ Answer(302)
          ELSE /\ epics' = [epics EXCEPT ![epic_id].archived = (action = "archive_epic")]
               /\ epic_stories' = EpicStoriesAfter(action, epic_id)
               /\ Answer(302)

\* Story.objects.create(epic=epic, title=...) of src/WoS/backlog.
EpicStoryCreate(epic) ==
    /\ epic \in DOMAIN epics
    /\ MaxId(DOMAIN epic_stories) < MaxEpicStories
    /\ epic_stories' = Put(epic_stories, MaxId(DOMAIN epic_stories) + 1,
                           [epic |-> epic, archived |-> FALSE])
    /\ last' = Request("epic_story_create", MaxId(DOMAIN epic_stories) + 1, "", 200,
                       NoHistory, NoOut)
    /\ UNCHANGED <<stories, vfactors, cfactors, vscores, cscores, cachedV, cachedC,
                   ranking, sequences, deps, epics>>

\* story_list (POST) of src/WoS/backlog with archive_story / unarchive_story.
epic_story_list(action, story_id) ==
    /\ action \in {"archive_story", "unarchive_story"}
    /\ UNCHANGED <<stories, vfactors, cfactors, vscores, cscores, cachedV, cachedC,
                   ranking, sequences, deps, epics>>
    /\ IF story_id \notin DOMAIN epic_stories
       THEN /\ last' = Request("epic_story_list", story_id, action, 404, NoHistory, NoOut)
            /\ UNCHANGED epic_stories
       ELSE /\ epic_stories' =
                  [epic_stories EXCEPT ![story_id].archived = (action = "archive_story")]
            /\ last' = Request("epic_story_list", story_id, action, 302, NoHistory, NoOut)

-----------------------------------------------------------------------------
(* The system *)

Init ==
    /\ stories = <<>>
    /\ vfactors = {}
    /\ cfactors = {}
    /\ vscores = <<>>
    /\ cscores = <<>>
    /\ cachedV = NoCache
    /\ cachedC = NoCache
    /\ last = Request("init", 0, "", 200, NoHistory, NoOut)
    /\ vranks = <<>> /\ cranks = <<>>
    /\ vrelative = {} /\ crelative = {}
    /\ vseq = 0 /\ cseq = 0
    /\ deps = <<>> /\ epics = <<>> /\ epic_stories = <<>>

\* The forms the specifications submit.
ScoreParts ==
    {p \in [vf : ScoreFields(1..MaxVF), cf : ScoreFields(1..MaxCF)] :
        FormFieldCount(p) <= MaxFormScores}

Form(title, goal, workitems, blocked, p) ==
    [title |-> title, goal |-> goal, workitems |-> workitems, blocked |-> blocked,
     vf |-> p.vf, cf |-> p.cf]

\* refine_story: a form with text fields only, or with score fields only.
RefineForms ==
    {Form(t, g, w, b, [vf |-> <<>>, cf |-> <<>>]) :
        t \in {Absent, <<SP>>}, g \in {Absent, <<"a">>},
        w \in {Absent, <<SP>>, <<"a">>}, b \in {Absent, <<"a">>}}
    \cup {Form(Absent, Absent, Absent, Absent, p) : p \in ScoreParts}

CreateForms ==
    {Form(t, g, w, b, p) :
        t \in {<<SP>>, <<"a">>}, g \in {<<"a">>}, w \in {Absent, <<"a">>},
        b \in {Absent, <<"a">>}, p \in ScoreParts}

\* The admin form strips its text fields and requires a title.
AdminTexts == {<<"a">>}
AdminCleaned(factors) ==
    {<<>>} \cup UNION {[D -> SubmittedValues \ {-1}] : D \in SUBSET factors \ {{}}}

Configure ==
    \/ AddValueFactor
    \/ AddCostFactor

Create ==
    \/ \E t \in {<<>>, <<"a">>}, g \in {<<>>, <<"a">>}, w \in {<<SP>>, <<"a">>} :
          StoryCreate(t, g, w)
    \/ \E form \in (IF NextId <= MaxStories THEN CreateForms
                     ELSE {f \in CreateForms : /\ strip(f.title) = <<>>
                                                /\ f.vf = <<>> /\ f.cf = <<>>}) :
          create_story_refine(form)

Refine ==
    \E pk \in 1..(MaxStories + 1) :
        \E form \in IF pk \in DOMAIN stories
                    THEN {f \in RefineForms : f.title = Absent /\ f.workitems # <<SP>>}
                    ELSE {Form(Absent, Absent, Absent, Absent, [vf |-> <<>>, cf |-> <<>>])} :
            refine_story(pk, form)

Admin ==
    \E pk \in (IF NextId <= MaxStories THEN {0} ELSE {}) \cup DOMAIN stories,
       w \in AdminTexts, vc \in AdminCleaned(vfactors), cc \in AdminCleaned(cfactors) :
        /\ Cardinality(DOMAIN vc) + Cardinality(DOMAIN cc) <= MaxFormScores
        /\ save_model(pk, <<"a">>, <<"a">>, w, vc, cc)

Move ==
    \E s \in 0..(MaxStories + 1), t \in KanbanTargets \cup {"", "archive"},
       r \in {<<>>, <<"a">>}, now \in Clock..MaxMinute :
        kanban_move(s, t, r, now)

\* Refinement and scoring: configuration, creation, editing, the dashboard.
Next ==
    \/ Configure
    \/ Create
    \/ Refine
    \/ Admin
    \/ dashboard

Spec == Init /\ [][Next]_vars

\* The board: creation, text editing, moves between the columns.
NextKanban ==
    \/ Create
    \/ Move
    \/ dashboard

SpecKanban == Init /\ [][NextKanban]_vars

-----------------------------------------------------------------------------
(* Scoring alone: one story with every combination of score rows, shown by the *)
(* board and by the report.                                                    *)

ScoreRows(factors) ==
    UNION {[D -> {None} \cup UNION {AnswersOf(f) : f \in factors}] : D \in SUBSET factors}

InitScore ==
    /\ stories = <<StorySave(NewStory(<<"a">>, <<"a">>, <<"a">>))>>
    /\ vfactors = 1..NumScoreVF
    /\ cfactors = 1..NumScoreCF
    /\ vscores \in {<<rows>> : rows \in {r \in ScoreRows(1..NumScoreVF) :
                        \A f \in DOMAIN r : r[f] = None \/ AnswerFactor(r[f]) = f}}
    /\ cscores \in {<<rows>> : rows \in {r \in ScoreRows(1..NumScoreCF) :
                        \A f \in DOMAIN r : r[f] = None \/ AnswerFactor(r[f]) = f}}
    /\ cachedV = NoCache
    /\ cachedC = NoCache
    /\ last = Request("init", 0, "", 200, NoHistory, NoOut)
    /\ vranks = <<>> /\ cranks = <<>>
    /\ vrelative = {} /\ crelative = {}
    /\ vseq = NumScoreVF /\ cseq = NumScoreCF
    /\ deps = <<>> /\ epics = <<>> /\ epic_stories = <<>>

NextScore ==
    \/ kanban_view
    \/ \E f \in {"", "ready"} : report_view(f)

SpecScore == InitScore /\ [][NextScore]_vars

-----------------------------------------------------------------------------
(* Status alone: one story with every combination of its fields and score rows, *)
(* the caches not loaded, loaded from the present configuration, or loaded      *)
(* before any factor was configured; the dashboard evaluates the status.        *)

\* Score rows: absent, answer=None, or the factor's first answer (score 0).
StatusScoreRows(factors) ==
    {[f \in DOMAIN r |-> IF r[f] THEN FirstAnswer(f) ELSE None] :
        r \in UNION {[D -> BOOLEAN] : D \in SUBSET factors}}

InitStatus ==
    /\ stories \in {<<StorySave([NewStory(t, g, w) EXCEPT !.blocked = b, !.planned = p,
                                                          !.started = st, !.finished = fi])>> :
                      t \in Texts, g \in Texts, w \in Texts, b \in Texts,
                      p \in {None, 1}, st \in {None, 1}, fi \in {None, 1}}
    /\ vfactors = 1..MaxVF
    /\ cfactors = 1..MaxCF
    /\ vscores \in {<<rows>> : rows \in StatusScoreRows(1..MaxVF)}
    /\ cscores \in {<<rows>> : rows \in StatusScoreRows(1..MaxCF)}
    /\ \E c \in {"none", "fresh", "stale"} :
          /\ cachedV = IF c = "none" THEN NoCache
                       ELSE [loaded |-> TRUE, ids |-> IF c = "fresh" THEN 1..MaxVF ELSE {}]
          /\ cachedC = IF c = "none" THEN NoCache
                       ELSE [loaded |-> TRUE, ids |-> IF c = "fresh" THEN 1..MaxCF ELSE {}]
    /\ last = Request("init", 0, "", 200, NoHistory, NoOut)
    /\ vranks = <<>> /\ cranks = <<>>
    /\ vrelative = {} /\ crelative = {}
    /\ vseq = MaxVF /\ cseq = MaxCF
    /\ deps = <<>> /\ epics = <<>> /\ epic_stories = <<>>

NextStatus == dashboard

SpecStatus == InitStatus /\ [][NextStatus]_vars

-----------------------------------------------------------------------------
(* Ranking: three stories, one planned-free and two planned; value factor 1 and *)
(* cost factor 1 are relative, value factor 2 (same section as 1) is absolute.  *)
(* Story 3 has no cost row.                                                     *)

RankStories == 1..NumRankStories

InitRelative ==
    /\ stories = [s \in RankStories |->
                     StorySave([NewStory(<<"a">>, <<"a">>, <<"a">>)
                                   EXCEPT !.planned = IF s = 1 THEN None ELSE 1])]
    /\ vfactors = {1, 2}
    /\ cfactors = {1}
    /\ vscores = [s \in RankStories |-> [f \in {1, 2} |->
                     IF f = 2 /\ s # 2 THEN FirstAnswer(2) + s ELSE None]]
    /\ cscores = [s \in RankStories |-> IF s = NumRankStories THEN <<>>
                                        ELSE [f \in {1} |-> None]]
    /\ cachedV = NoCache
    /\ cachedC = NoCache
    /\ last = Request("init", 0, "", 200, NoHistory, NoOut)
    /\ vranks = <<>> /\ cranks = <<>>
    /\ vrelative = {1} /\ crelative = {1}
    /\ vseq = 2 /\ cseq = 1
    /\ deps = <<>> /\ epics = <<>> /\ epic_stories = <<>>

\* The rankings lists the specification submits.
Rankings ==
    UNION {[D -> 0..MaxRank] :
              D \in {X \in SUBSET RankStories : X # {} /\ Cardinality(X) <= MaxRankItems}}

SaveRanking ==
    \E factor_type \in {"value", "cost"}, factor_id \in {1}, rankings \in Rankings :
        relative_ranking_save(factor_type, factor_id, rankings)

SaveRankingUnknown ==
    \E factor_type \in {"value", "cost"} :
        relative_ranking_save(factor_type, 3, [s \in {1} |-> 1])

HybridReport == \E f \in {"", "planned"} : relative_report_view(f)

NextRelative ==
    \/ SaveRanking
    \/ SaveRankingUnknown
    \/ HybridReport

SpecRelative == InitRelative /\ [][NextRelative]_vars

-----------------------------------------------------------------------------
(* _normalize_rank alone, on arguments drawn from small sets. *)

NormalizeCall ==
    \E rank \in 1..MaxRankedCount, ranked_count \in 0..MaxRankedCount,
       min_score \in {-1, 0, 1}, max_score \in {1, 5, 7}, invert \in BOOLEAN :
        normalize_rank_call(rank, ranked_count, min_score, max_score, invert)

NextNormalize == NormalizeCall

SpecNormalize == Init /\ [][NextNormalize]_vars

-----------------------------------------------------------------------------
(* Configuration: factors are added and deleted while stories are created and *)
(* the dashboard evaluates their status.                                      *)

Unconfigure ==
    \/ \E f \in 1..MaxVF : DeleteValueFactor(f)
    \/ \E f \in 1..MaxCF : DeleteCostFactor(f)

CreateDirect ==
    \E t \in {<<>>, <<"a">>}, g \in {<<SP>>, <<"a">>}, w \in {<<>>, <<"a">>} :
        StoryCreate(t, g, w)

NextFactors ==
    \/ Configure
    \/ Unconfigure
    \/ CreateDirect
    \/ dashboard

SpecFactors == Init /\ [][NextFactors]_vars

-----------------------------------------------------------------------------
(* The backlog: stories are created, their text is edited, they are moved on   *)
(* the board and changed or deleted in bulk.                                   *)

BulkActions ==
    {"add_labels", "set_review", "clear_review", "set_blocked", "archive", "unarchive",
     "delete", ""}

\* The pieces of a story_ids parameter that lists the ids of the set, in order.
RECURSIVE IdList(_)
IdList(ids) ==
    IF ids = {} THEN <<>>
    ELSE IdList(ids \ {MaxId(ids)}) \o << <<ToString(MaxId(ids))>> >>

\* A blocked reason goes with set_blocked, label ids with add_labels.
Bulk ==
    \E action \in BulkActions, ids \in {IdList(S) : S \in SUBSET (1..MaxStories)} :
        \E reason \in (IF action = "set_blocked" THEN {<<SP>>, <<"B">>} ELSE {<<>>}),
           labels \in (IF action = "add_labels" THEN SUBSET LabelIds ELSE {{}}) :
            bulk_action(action, ids, reason, labels)

\* refine_story with the goal, the workitems and the blocked reason.
RefineText ==
    \E pk \in DOMAIN stories :
        \E form \in {f \in RefineForms : f.title = Absent /\ f.vf = <<>> /\ f.cf = <<>>} :
            refine_story(pk, form)

MoveStory ==
    \E s \in DOMAIN stories, t \in {"backlog", "planned", "done"}, now \in Clock..MaxMinute :
        kanban_move(s, t, <<>>, now)

NextBacklog ==
    \/ CreateDirect
    \/ RefineText
    \/ MoveStory
    \/ Bulk

SpecBacklog == Init /\ [][NextBacklog]_vars

-----------------------------------------------------------------------------
(* History: a story is created and edited through refine_story, with and       *)
(* without a special action, and through bulk_action.                          *)

RefineSpecial ==
    \E pk \in 1..MaxStories, action \in RefineActions :
        \E story_id \in (IF action = "add_dependency" THEN {<<>>, <<"1">>} ELSE {<<>>}),
           dep \in (IF action = "remove_dependency" THEN {0, 1} ELSE {0}) :
            refine_story_action(pk, action, story_id, dep)

NextHistory ==
    \/ CreateDirect
    \/ RefineText
    \/ RefineSpecial
    \/ Bulk

SpecHistory == Init /\ [][NextHistory]_vars

-----------------------------------------------------------------------------
(* Dependencies: two stories; dependencies are added and removed through the   *)
(* WBS endpoints and through refine_story.                                     *)

NumDepStories == 2

InitDependencies ==
    /\ stories = [s \in 1..NumDepStories |->
                    StorySave(NewStory(IF s = 1 THEN <<"a">> ELSE <<"B">>, <<>>, <<>>))]
    /\ vfactors = {}
    /\ cfactors = {}
    /\ vscores = [s \in 1..NumDepStories |-> <<>>]
    /\ cscores = [s \in 1..NumDepStories |-> <<>>]
    /\ cachedV = NoCache
    /\ cachedC = NoCache
    /\ last = Request("init", 0, "", 200, NoHistory, NoOut)
    /\ vranks = <<>> /\ cranks = <<>>
    /\ vrelative = {} /\ crelative = {}
    /\ vseq = 0 /\ cseq = 0
    /\ deps = <<>> /\ epics = <<>> /\ epic_stories = <<>>

\* The story ids the requests carry: missing, 1, 2, 1 written with a leading
\* zero, and the id of no story.
StoryIdTexts == {<<>>, <<"1">>, <<"2">>, <<"0", "1">>, <<"3">>}

AddDependency ==
    \E story_id \in StoryIdTexts, depends_on_id \in StoryIdTexts :
        wbs_add_dependency(story_id, depends_on_id)

RemoveDependency ==
    \E story_id \in {<<>>, <<"1">>, <<"2">>}, depends_on_id \in {<<"1">>, <<"2">>} :
        wbs_remove_dependency(story_id, depends_on_id)

RefineDependency ==
    \/ \E pk \in 1..(NumDepStories + 1), story_id \in StoryIdTexts :
          refine_story_action(pk, "add_dependency", story_id, 0)
    \/ \E pk \in 1..NumDepStories, dep \in 0..MaxDepId :
          refine_story_action(pk, "remove_dependency", <<>>, dep)

NextDependencies ==
    \/ AddDependency
    \/ RemoveDependency
    \/ RefineDependency

SpecDependencies == InitDependencies /\ [][NextDependencies]_vars

-----------------------------------------------------------------------------
(* The dashboard: two stories, archived or not, flagged for review or not, with *)
(* every combination of score rows; stories are archived and unarchived in     *)
(* bulk and the dashboard is shown.                                            *)

NumDashStories == 2

InitDashboard ==
    /\ stories \in [1..NumDashStories ->
                      {StorySave([NewStory(<<"a">>, g, <<"a">>)
                                     EXCEPT !.archived = a, !.review_required = r]) :
                          g \in {<<>>, <<"a">>}, a \in BOOLEAN, r \in BOOLEAN}]
    /\ vfactors = 1..MaxVF
    /\ cfactors = 1..MaxCF
    /\ vscores \in [1..NumDashStories -> StatusScoreRows(1..MaxVF)]
    /\ cscores \in [1..NumDashStories -> {<<>>, [f \in 1..MaxCF |-> FirstAnswer(f)]}]
    /\ cachedV = NoCache
    /\ cachedC = NoCache
    /\ last = Request("init", 0, "", 200, NoHistory, NoOut)
    /\ vranks = <<>> /\ cranks = <<>>
    /\ vrelative = {} /\ crelative = {}
    /\ vseq = MaxVF /\ cseq = MaxCF
    /\ deps = <<>> /\ epics = <<>> /\ epic_stories = <<>>

BulkArchive ==
    \E action \in {"archive", "unarchive"}, S \in SUBSET (1..NumDashStories) :
        bulk_action(action, IdList(S), <<>>, {})

NextDashboard ==
    \/ dashboard
    \/ BulkArchive

SpecDashboard == InitDashboard /\ [][NextDashboard]_vars

-----------------------------------------------------------------------------
(* Epics: epics and their stories are created, archived, unarchived and        *)
(* deleted.                                                                    *)

Overview ==
    \E action \in OverviewActions, epic_id \in 0..(MaxEpics + 1) :
        \E title \in (IF action \in {"create_epic", "edit_epic"} THEN {<<SP>>, <<"a">>}
                      ELSE {<<>>}) :
        overview(action, epic_id, title)

CreateEpicStory == \E epic \in 1..MaxEpics : EpicStoryCreate(epic)

ArchiveEpicStory ==
    \E action \in {"archive_story", "unarchive_story"}, s \in 1..(MaxEpicStories + 1) :
        epic_story_list(action, s)

NextEpics ==
    \/ Overview
    \/ CreateEpicStory
    \/ ArchiveEpicStory

SpecEpics == Init /\ [][NextEpics]_vars

-----------------------------------------------------------------------------
(* Bulk actions: two stories, one of them archived, flagged and blocked, one   *)
(* depending on the other; bulk_action is posted with lists of story ids.      *)

NumBulkStories == 2

InitBulk ==
    /\ stories = [s \in 1..NumBulkStories |->
                    StorySave([NewStory(<<"a">>, <<"a">>, <<"a">>)
                                  EXCEPT !.archived = (s = 2), !.review_required = (s = 2),
                                         !.blocked = IF s = 2 THEN <<"a">> ELSE <<>>])]
    /\ vfactors = {}
    /\ cfactors = {}
    /\ vscores = [s \in 1..NumBulkStories |-> <<>>]
    /\ cscores = [s \in 1..NumBulkStories |-> <<>>]
    /\ cachedV = NoCache
    /\ cachedC = NoCache
    /\ last = Request("init", 0, "", 200, NoHistory, NoOut)
    /\ vranks = <<>> /\ cranks = <<>>
    /\ vrelative = {} /\ crelative = {}
    /\ vseq = 0 /\ cseq = 0
    /\ deps = <<[story |-> 1, depends_on |-> NumBulkStories]>>
    /\ epics = <<>> /\ epic_stories = <<>>

\* The story_ids parameters posted, in pieces: '', '1', ' 2', '02,a', 'a', '1,2'
\* and '3'.
BulkIdLists ==
    {<< <<>> >>, << <<"1">> >>, << <<SP, "2">> >>, << <<"0", "2">>, <<"a">> >>,
     << <<"a">> >>, << <<"1">>, <<"2">> >>, << <<"3">> >>}

BulkPost ==
    \E action \in BulkActions, pieces \in BulkIdLists :
        \E reason \in (IF action = "set_blocked" THEN {<<SP>>, <<"B">>} ELSE {<<>>}),
           labels \in (IF action = "add_labels" THEN SUBSET LabelIds ELSE {{}}) :
            bulk_action(action, pieces, reason, labels)

NextBulk == BulkPost

SpecBulk == InitBulk /\ [][NextBulk]_vars

-----------------------------------------------------------------------------
(* The story list: stories are listed, archived, flagged and deleted; the      *)
(* first story has any combination of score rows.                              *)

NumListStories == 2

InitStoryList ==
    /\ stories \in [1..NumListStories ->
                      {StorySave(NewStory(<<"a">>, g, <<"a">>)) : g \in {<<>>, <<"a">>}}]
    /\ vfactors = 1..MaxVF
    /\ cfactors = 1..MaxCF
    /\ vscores \in {[s \in 1..NumListStories |->
                        IF s = 1 THEN r ELSE [f \in 1..MaxVF |-> FirstAnswer(f)]] :
                       r \in StatusScoreRows(1..MaxVF)}
    /\ cscores = [s \in 1..NumListStories |-> [f \in 1..MaxCF |-> FirstAnswer(f)]]
    /\ cachedV = NoCache
    /\ cachedC = NoCache
    /\ last = Request("init", 0, "", 200, NoHistory, NoOut)
    /\ vranks = <<>> /\ cranks = <<>>
    /\ vrelative = {} /\ crelative = {}
    /\ vseq = MaxVF /\ cseq = MaxCF
    /\ deps = <<>> /\ epics = <<>> /\ epic_stories = <<>>

StoryListGet ==
    \E show_archived \in BOOLEAN, status_filter \in {"", "idea", "ready"},
       review_filter \in {"", "yes", "no"}, sort \in {"title", "status"} :
        story_list("GET", "", 0, show_archived, status_filter, review_filter, sort)

StoryListPost ==
    \E action \in StoryListActions \cup {""}, story_id \in 0..NumListStories :
        story_list("POST", action, story_id, FALSE, "", "", "title")

NextStoryList ==
    \/ StoryListGet
    \/ StoryListPost

SpecStoryList == InitStoryList /\ [][NextStoryList]_vars

-----------------------------------------------------------------------------
(* Properties *)

Statuses == {"idea", "ready", "planned", "started", "done", "blocked"}

NoLifecycle(st) ==
    /\ ~filled(st.blocked)
    /\ st.finished = None /\ st.started = None /\ st.planned = None

TextFilled(st) == filled(st.title) /\ filled(st.goal) /\ filled(st.workitems)

\* Some configured factor has no score row with a defined answer for story s.
LacksScore(s) ==
    \/ \E f \in vfactors : f \notin DefinedIds(vscores[s])
    \/ \E f \in cfactors : f \notin DefinedIds(cscores[s])

DashboardShown == last.op = "dashboard"

\* C1: whatever the fields and score rows of a story, the status the dashboard
\* computes for it is one of the six statuses, chosen by strict precedence:
\* blocked (non-empty after trim), then done, then started, then planned, then
\* ready or idea.
C1_StatusPrecedence ==
    DashboardShown =>
        \A s \in DOMAIN last.out.computed :
            LET st == stories[s]
                status == last.out.computed[s]
            IN /\ status \in Statuses
               /\ status = "blocked" <=> filled(st.blocked)
               /\ status = "done" <=> ~filled(st.blocked) /\ st.finished # None
               /\ status = "started" <=>
                     ~filled(st.blocked) /\ st.finished = None /\ st.started # None
               /\ status = "planned" <=>
                     /\ ~filled(st.blocked) /\ st.finished = None
                     /\ st.started = None /\ st.planned # None
               /\ status \in {"ready", "idea"} <=> NoLifecycle(st)

\* A story with every lifecycle field set at once was shown as blocked.
C1_Witness ==
    /\ DashboardShown
    /\ \E s \in DOMAIN last.out.computed :
          /\ filled(stories[s].blocked) /\ stories[s].finished # None
          /\ stories[s].started # None /\ stories[s].planned # None
          /\ last.out.computed[s] = "blocked"

\* C2 (as claimed): right after a value or cost factor is added, every story with no
\* lifecycle field set (none has an answer for the new factor yet) has computed
\* status 'idea', and the dashboard lists every story lacking a score in
\* needs_scoring.
C2_NewFactorMakesIdea ==
    /\ last.op \in {"add_value_factor", "add_cost_factor"} =>
          \A s \in DOMAIN stories :
              NoLifecycle(stories[s]) => computed_status(s) = "idea"
    /\ DashboardShown =>
          \A s \in DOMAIN last.out.computed :
              LacksScore(s) => s \in last.out.needs_scoring

\* Target column of a move -> the status that column shows.
ColumnStatus(target) ==
    CASE target = "planned" -> "planned"
      [] target = "doing" -> "started"
      [] target = "done" -> "done"
      [] target = "blocked" -> "blocked"
      [] OTHER -> ""

Moved == last.op = "kanban_move" /\ last.code = 200

\* C3 (as claimed): after a successful kanban_move to planned, doing, done or
\* blocked the story's computed status is the status of that column, whatever
\* lifecycle fields it had before.
C3_MoveGivesColumnStatus ==
    (Moved /\ last.arg # "backlog") => computed_status(last.story) = ColumnStatus(last.arg)

\* C3 (amended): after a successful kanban_move, target 'blocked' gives 'blocked' and
\* 'done' gives 'done'; 'doing' gives 'started' unless finished is set (then
\* 'done'); 'planned' gives 'planned' unless finished or started is set (then
\* 'done', else 'started').
C3_MoveStatus ==
    Moved =>
        LET st == stories[last.story]
            status == computed_status(last.story)
        IN /\ last.arg = "blocked" => status = "blocked"
           /\ last.arg = "done" => status = "done"
           /\ last.arg = "doing" =>
                 status = IF st.finished # None THEN "done" ELSE "started"
           /\ last.arg = "planned" =>
                 status = IF st.finished # None THEN "done"
                          ELSE IF st.started # None THEN "started" ELSE "planned"

\* A started story was moved to the planned column and is still shown as started.
C3_Witness ==
    /\ Moved /\ last.arg = "planned"
    /\ stories[last.story].started # None /\ stories[last.story].finished = None
    /\ computed_status(last.story) = "started"

\* C4 (as claimed): a story whose title, goal or workitems is empty after trimming
\* has computed status 'idea'.
C4_MissingTextIsIdea ==
    DashboardShown =>
        \A s \in DOMAIN last.out.computed :
            ~TextFilled(stories[s]) => last.out.computed[s] = "idea"

\* C4 (amended): a story with no lifecycle field set (blocked empty after trimming,
\* finished, started and planned unset) whose title, goal or workitems is empty
\* after trimming has computed status 'idea', regardless of its scores.
C4_MissingTextIsIdeaUnlessLifecycle ==
    DashboardShown =>
        \A s \in DOMAIN last.out.computed :
            (NoLifecycle(stories[s]) /\ ~TextFilled(stories[s]))
                => last.out.computed[s] = "idea"

\* A story with every score defined but a blank goal was shown as idea.
C4_Witness ==
    /\ DashboardShown
    /\ \E s \in DOMAIN last.out.computed :
          /\ NoLifecycle(stories[s])
          /\ filled(stories[s].title) /\ filled(stories[s].workitems)
          /\ ~filled(stories[s].goal) /\ stories[s].goal # <<>>
          /\ vfactors # {} /\ cfactors # {} /\ ~LacksScore(s)
          /\ last.out.computed[s] = "idea"

\* C5 (as claimed): for a story with no lifecycle field set and the three text
\* fields filled, computed status is 'idea' exactly when some configured factor has
\* no score row or a row with answer None; a row with a defined answer counts as
\* scored whatever its numeric score (0 included).
C5_UndefinedIsUnscored ==
    \A s \in DOMAIN stories :
        (NoLifecycle(stories[s]) /\ TextFilled(stories[s]))
            => (computed_status(s) = "idea" <=> LacksScore(s))

Created == last.op \in {"create", "create_story_refine"} /\ last.story # 0

\* The answer a creation form submits for factor f (None without a usable one).
SubmittedAnswer(fields, f) ==
    IF f \in DOMAIN fields /\ fields[f] >= 1 /\ fields[f] \in AnswersOf(f)
    THEN fields[f] ELSE None

\* C6 (as claimed): right after a story is created, by Story.objects.create or by
\* create_story_refine, it has a score row for each configured value factor and
\* each configured cost factor, holding the submitted answer or else None.
C6_RowPerFactorOnCreate ==
    Created =>
        /\ DOMAIN vscores[last.story] = vfactors
        /\ DOMAIN cscores[last.story] = cfactors
        /\ \A f \in vfactors :
              vscores[last.story][f] = SubmittedAnswer(last.out.vf, f)
        /\ \A f \in cfactors :
              cscores[last.story][f] = SubmittedAnswer(last.out.cf, f)

\* The history rows of the last request for the score of factor f.
ScoreHistory(label, f) ==
    {i \in DOMAIN last.history : last.history[i].field_name = <<label, ToString(f)>>}

\* A score field carrying the id of an answer of another factor left no trace.
ForeignIgnored(fields, rows, label) ==
    \A f \in DOMAIN fields :
        (fields[f] >= 1 /\ AnswerFactor(fields[f]) # f) =>
            /\ f \in DOMAIN rows => rows[f] # fields[f]
            /\ ScoreHistory(label, f) = {}

Scored ==
    /\ last.op \in {"create_story_refine", "refine_story", "save_model"}
    /\ last.code = 302

\* C7: every score row that has an answer has an answer of the factor the row is
\* recorded against, and a score field submitted with the id of another factor's
\* answer is ignored: the row does not take it and no history row is written for it.
C7_AnswerOfOwnFactor ==
    /\ \A s \in DOMAIN stories :
          /\ \A f \in DefinedIds(vscores[s]) : AnswerFactor(vscores[s][f]) = f
          /\ \A f \in DefinedIds(cscores[s]) : AnswerFactor(cscores[s][f]) = f
    /\ Scored =>
          /\ ForeignIgnored(last.out.vf, vscores[last.story], "Value")
          /\ ForeignIgnored(last.out.cf, cscores[last.story], "Cost")

\* refine_story was submitted the id of an answer of another configured value factor
\* for a factor whose row holds an answer, and the row kept its own answer.
C7_Witness ==
    /\ last.op = "refine_story" /\ last.code = 302
    /\ \E f \in DOMAIN last.out.vf :
          /\ last.out.vf[f] >= 1
          /\ AnswerFactor(last.out.vf[f]) # f
          /\ AnswerFactor(last.out.vf[f]) \in vfactors
          /\ f \in DefinedIds(vscores[last.story])
          /\ AnswerFactor(vscores[last.story][f]) = f

BoardShown == last.op = "kanban_view"
ReportShown == last.op = "report_view"

\* C8 (as claimed): the value, cost and result on a story's kanban card are the
\* value_sum, cost_sum and result the report computes for the same story, sections
\* and scores.
C8_BoardScoreIsReportScore ==
    BoardShown =>
        \A s \in DOMAIN last.out.cards :
            LET card == last.out.cards[s]
                row == ReportRow(vscores[s], cscores[s])
            IN /\ REq(card.value, row.value_sum)
               /\ REq(card.cost, row.cost_sum)
               /\ row.has_result
               /\ REq(card.result, row.result)

\* C9 (as claimed): with total cost 0 the result is a number, on the board and in the
\* report: total value 7 gives result 7, which the report classifies 'good', and
\* total value 0 gives result 0, which the report classifies 'bad'.
C9_ZeroCostResult ==
    /\ BoardShown =>
          \A s \in DOMAIN last.out.cards :
              LET card == last.out.cards[s]
              IN card.cost.n = 0 =>
                    /\ REq(card.value, Rat(7, 1)) => REq(card.result, Rat(7, 1))
                    /\ card.value.n = 0 => card.result.n = 0
    /\ ReportShown =>
          \A s \in DOMAIN last.out.rows :
              LET row == last.out.rows[s]
              IN row.cost_sum.n = 0 =>
                    /\ REq(row.value_sum, Rat(7, 1)) =>
                          /\ row.has_result /\ REq(row.result, Rat(7, 1))
                          /\ row.result_class = "good"
                    /\ row.value_sum.n = 0 =>
                          /\ row.has_result /\ row.result.n = 0
                          /\ row.result_class = "bad"

\* The zero-cost fallback of the result: the total value if positive, else 0.
IsFallback(card) ==
    IF RPositive(card.value) THEN REq(card.result, card.value) ELSE card.result.n = 0

IsRounded2(r, x) ==
    LET h == (100 * r.n) \div r.d
        diff == 100 * x.n - h * x.d
        dist == IF diff < 0 THEN -diff ELSE diff
    IN /\ h * r.d = 100 * r.n
       /\ 2 * dist <= x.d
       /\ 2 * dist = x.d => h % 2 = 0

HybridShown == last.op = "relative_report_view"

\* Every normalized score of the detail rows lies within the factor's answer scale
\* and was computed from a rank that does not exceed the ranked count.
WithinScale(detail) ==
    \A f \in DOMAIN detail :
        /\ detail[f].rank <= detail[f].ranked_count
        /\ ~RLess(detail[f].score, Rat(detail[f].min, 1))
        /\ ~RLess(Rat(detail[f].max, 1), detail[f].score)

\* C11 (as claimed): in the hybrid report, whatever ranks are stored and whatever
\* status filter is applied, every relative score with a rank > 0 has a rank that
\* does not exceed the ranked count used for it, and a normalized score between the
\* factor's min_score and max_score.
C11_NormalizedWithinScale ==
    HybridShown =>
        \A s \in DOMAIN last.out.rows :
            /\ WithinScale(last.out.rows[s].value_detail)
            /\ WithinScale(last.out.rows[s].cost_detail)

\* sum(scores) / len(scores) summed over the sections, from a row's score entries.
RECURSIVE SumOfEntries(_, _)
SumOfEntries(scores, fs) ==
    IF fs = {} THEN Rat(0, 1)
    ELSE LET f == CHOOSE g \in fs : TRUE
         IN RAdd(scores[f], SumOfEntries(scores, fs \ {f}))

AverageOfEntries(scores, fs) ==
    LET total == SumOfEntries(scores, fs)
    IN Rat(total.n, total.d * Cardinality(fs))

RECURSIVE SumOfSectionAverages(_, _)
SumOfSectionAverages(scores, groups) ==
    IF groups = {} THEN Rat(0, 1)
    ELSE LET g == CHOOSE h \in groups : TRUE
         IN RAdd(AverageOfEntries(scores, g), SumOfSectionAverages(scores, groups \ {g}))

\* The non-empty groups of scored factors, one per section.
ScoredGroups(scores, SectionIds, sections) ==
    {{f \in DOMAIN scores : sections[f] = n} : n \in SectionIds}
        \ {{}}

\* C12: in the hybrid report a relative factor whose rank is None or <= 0 has no
\* score entry for the story, and the story's totals are the sums of the section
\* averages over the entries alone, so the factor adds nothing to its section's
\* average and is not counted in the divisor.
C12_UnrankedIsUndefined ==
    HybridShown =>
        \A s \in DOMAIN last.out.rows :
            LET row == last.out.rows[s]
            IN /\ \A f \in vrelative : ~Ranked(vranks, s, f) => f \notin DOMAIN row.value_scores
               /\ \A f \in crelative : ~Ranked(cranks, s, f) => f \notin DOMAIN row.cost_scores
               /\ REq(row.value_sum,
                      SumOfSectionAverages(row.value_scores,
                          ScoredGroups(row.value_scores,
                                       {VSectionOf(f) : f \in vfactors}, VSections)))
               /\ REq(row.cost_sum,
                      SumOfSectionAverages(row.cost_scores,
                          ScoredGroups(row.cost_scores,
                                       {CSectionOf(f) : f \in cfactors}, CSections)))

\* The report showed a story ranked 0 on the relative value factor, scored on the
\* absolute factor of the same section, next to a story ranked last: the first
\* story's total is its absolute score alone.
C12_Witness ==
    /\ HybridShown
    /\ \E s, u \in DOMAIN last.out.rows :
          /\ s # u
          /\ <<s, 1>> \in DOMAIN vranks /\ vranks[<<s, 1>>] = 0
          /\ 2 \in DOMAIN last.out.rows[s].value_scores
          /\ REq(last.out.rows[s].value_sum, last.out.rows[s].value_scores[2])
          /\ 1 \in DOMAIN last.out.rows[u].value_detail
          /\ last.out.rows[u].value_detail[1].rank
                = last.out.rows[u].value_detail[1].ranked_count
          /\ last.out.rows[u].value_detail[1].ranked_count > 1

NormalizeCalled == last.op = "_normalize_rank"

\* C13: _normalize_rank returns the best bound (max_score for a value factor,
\* min_score for a cost factor) for rank 1 and whenever ranked_count <= 1, the
\* opposite bound for rank = ranked_count, and for 1 <= rank <= ranked_count the
\* point (rank - 1) / (ranked_count - 1) of the way from the best bound to the
\* opposite one; rank 2 of 3 with min 1 and max 5 gives 3.
C13_NormalizeRank ==
    NormalizeCalled =>
        LET c == last.out
            best == IF c.invert THEN c.min_score ELSE c.max_score
            worst == IF c.invert THEN c.max_score ELSE c.min_score
        IN /\ (c.ranked_count <= 1 \/ c.rank = 1) => REq(c.score, Rat(best, 1))
           /\ (c.ranked_count > 1 /\ c.rank = c.ranked_count) => REq(c.score, Rat(worst, 1))
           /\ (c.ranked_count > 1 /\ c.rank <= c.ranked_count) =>
                 c.score.n * (c.ranked_count - 1) =
                    c.score.d * (best * (c.ranked_count - c.rank) + worst * (c.rank - 1))
           /\ (c.rank = 2 /\ c.ranked_count = 3 /\ c.min_score = 1 /\ c.max_score = 5)
                 => REq(c.score, Rat(3, 1))

\* _normalize_rank was called with rank 2 of 3, min 1, max 5 for a value factor and
\* returned 3.
C13_Witness ==
    /\ NormalizeCalled
    /\ last.out.rank = 2 /\ last.out.ranked_count = 3
    /\ last.out.min_score = 1 /\ last.out.max_score = 5 /\ ~last.out.invert
    /\ REq(last.out.score, Rat(3, 1))

\* The defined scores of a story's rows for the configured factors.
DefinedScores(rows, factors) ==
    [f \in factors \cap DefinedIds(rows) |-> Rat(AnswerScore(rows[f]), 1)]

\* The sum over the sections of the average of the defined scores of the section.
ExpectedTotal(rows, factors, sections) ==
    LET scores == DefinedScores(rows, factors)
    IN SumOfSectionAverages(scores,
           ScoredGroups(scores, {sections[f] : f \in factors}, sections))

\* C14: on the board and in the report, a story's total value and total cost are the
\* sums over the sections of the average of the section's defined scores; a section
\* without a defined score adds nothing, and an undefined score is left out of its
\* section's average.
C14_TotalIsSumOfSectionAverages ==
    /\ BoardShown =>
          \A s \in DOMAIN last.out.cards :
              /\ REq(last.out.cards[s].value, ExpectedTotal(vscores[s], vfactors, VSections))
              /\ REq(last.out.cards[s].cost, ExpectedTotal(cscores[s], cfactors, CSections))
    /\ ReportShown =>
          \A s \in DOMAIN last.out.rows :
              /\ REq(last.out.rows[s].value_sum,
                     ExpectedTotal(vscores[s], vfactors, VSections))
              /\ REq(last.out.rows[s].cost_sum,
                     ExpectedTotal(cscores[s], cfactors, CSections))

\* The report showed a story whose first value section has two different defined
\* scores and whose second has one: twice the total is the two scores plus twice
\* the third (scores 1 and 7 and 3 give 4 + 3 = 7).
C14_Witness ==
    /\ ReportShown
    /\ \E s \in DOMAIN last.out.rows :
          /\ {1, 2, 3} \subseteq DefinedIds(vscores[s])
          /\ VSectionOf(1) = VSectionOf(2) /\ VSectionOf(3) # VSectionOf(1)
          /\ AnswerScore(vscores[s][1]) = 1 /\ AnswerScore(vscores[s][2]) = 7
          /\ AnswerScore(vscores[s][3]) = 3
          /\ REq(last.out.rows[s].value_sum, Rat(7, 1))

\* C15 (as claimed): a story with no value or cost factor configured, title, goal
\* and workitems non-empty after trimming and no lifecycle field set has computed
\* status 'ready'.
C15_NoFactorsIsReady ==
    \A s \in DOMAIN stories :
        (vfactors = {} /\ cfactors = {} /\ TextFilled(stories[s]) /\ NoLifecycle(stories[s]))
            => computed_status(s) = "ready"

\* C16: a story whose blocked field is empty or only whitespace is never shown as
\* blocked: its status is 'done' if finished is set, else 'started' if started is
\* set, else 'planned' if planned is set, else 'ready' or 'idea'.
C16_BlankBlockedIsNotBlocked ==
    DashboardShown =>
        \A s \in DOMAIN last.out.computed :
            LET st == stories[s]
                status == last.out.computed[s]
            IN strip(st.blocked) = <<>> =>
                  /\ status # "blocked"
                  /\ st.finished # None => status = "done"
                  /\ (st.finished = None /\ st.started # None) => status = "started"
                  /\ (st.finished = None /\ st.started = None /\ st.planned # None)
                        => status = "planned"
                  /\ (st.finished = None /\ st.started = None /\ st.planned = None)
                        => status \in {"ready", "idea"}

\* A story whose blocked field is a single space, with only planned set, was shown
\* as planned.
C16_Witness ==
    /\ DashboardShown
    /\ \E s \in DOMAIN last.out.computed :
          /\ stories[s].blocked = <<SP>>
          /\ stories[s].finished = None /\ stories[s].started = None
          /\ stories[s].planned # None
          /\ last.out.computed[s] = "planned"

\* The history rows of the last request with the given field name.
HistoryRows(field_name) == SelectSeq(last.history, LAMBDA h : h.field_name = field_name)

\* C18: kanban_move with target 'backlog' leaves planned, started and finished
\* unset and blocked empty, whatever they were, and the story's computed status
\* is then 'ready' or 'idea'.
C18_BacklogClearsLifecycle ==
    (Moved /\ last.arg = "backlog") =>
        LET st == stories[last.story]
        IN /\ st.planned = None /\ st.started = None /\ st.finished = None
           /\ st.blocked = <<>>
           /\ last.out.status \in {"ready", "idea"}
           /\ computed_status(last.story) \in {"ready", "idea"}

\* A blocked story with all three dates set was moved to the backlog.
C18_Witness ==
    /\ Moved /\ last.arg = "backlog"
    /\ \A f \in {<<"Planned">>, <<"Started">>, <<"Finished">>, <<"Blocked">>} :
          /\ Len(HistoryRows(f)) = 1
          /\ HistoryRows(f)[1].old_value # <<>>
          /\ HistoryRows(f)[1].new_value = <<>>
    /\ stories[last.story].finished = None

\* A kanban_move request that named no story, no target or a target that is no
\* column.
BadMove(r) ==
    /\ r.op = "kanban_move"
    /\ r.story = 0 \/ r.arg = "" \/ r.arg \notin KanbanTargets

\* C19 as stated: kanban_move answers 400 when story_id or target is missing or
\* the target is not one of the five columns, and then changes no story and adds
\* no history record.
C19_BadMoveIs400 ==
    [][BadMove(last') =>
          /\ last'.code = 400
          /\ stories' = stories
          /\ last'.history = <<>>]_vars

\* C19: kanban_move answers 400 when story_id or target is missing; with both
\* present it answers 404 for a story that does not exist and 400 when the story
\* exists and the target is not one of the five columns.  In all these cases no
\* story is changed and no history record is added.
C19_BadMoveIsRejected ==
    [][BadMove(last') =>
          /\ last'.code =
                IF last'.story = 0 \/ last'.arg = "" THEN 400
                ELSE IF last'.story \notin DOMAIN stories THEN 404
                ELSE 400
          /\ stories' = stories
          /\ last'.history = <<>>]_vars

\* An existing story, already planned, was sent to a target that is no column and
\* the request was answered 400.
C19_Witness ==
    /\ last.op = "kanban_move" /\ last.code = 400
    /\ last.story \in DOMAIN stories
    /\ last.arg = "archive"
    /\ stories[last.story].planned # None
    /\ last.history = <<>>

\* C20: a successful kanban_move appends one 'Status (Kanban)' record, with the
\* old and the new computed status, exactly when the story's computed status
\* after the move differs from the one before; otherwise it appends none.
C20_StatusRecordIffChanged ==
    [][\A s \in DOMAIN stories :
          (last'.op = "kanban_move" /\ last'.code = 200 /\ last'.story = s) =>
              LET before == computed_status(s)
                  after == computed_status(s)'
                  rows == SelectSeq(last'.history,
                                    LAMBDA h : h.field_name = <<"Status (Kanban)">>)
              IN rows = IF before # after
                        THEN <<[story |-> s, field_name |-> <<"Status (Kanban)">>,
                                old_value |-> Upper(before),
                                new_value |-> Upper(after)]>>
                        ELSE <<>>]_vars

\* A move changed the planned date of a started story: its status stayed and the
\* request wrote a 'Planned' record but no 'Status (Kanban)' record.
C20_Witness ==
    /\ Moved /\ last.arg = "planned"
    /\ last.out.status = "started"
    /\ Len(HistoryRows(<<"Planned">>)) = 1
    /\ HistoryRows(<<"Status (Kanban)">>) = <<>>

\* C17: the stored status of every story is 'refined' exactly when its goal and
\* its workitems are both non-empty after trimming, and 'new' otherwise, after any
\* sequence of create, refine_story, kanban_move and bulk_action.
C17_StatusFollowsText ==
    \A s \in DOMAIN stories :
        stories[s].status =
            IF strip(stories[s].goal) # <<>> /\ strip(stories[s].workitems) # <<>>
            THEN "refined" ELSE "new"

\* refine_story replaced the workitems of a blocked story, which had a goal and
\* workitems, by a blank: its status is 'new' again.
C17_Witness ==
    /\ last.op = "refine_story" /\ last.code = 302
    /\ last.story \in DOMAIN stories
    /\ LET st == stories[last.story]
       IN /\ st.goal = <<"a">> /\ st.workitems = <<SP>>
          /\ st.status = "new"
          /\ st.blocked # <<>>
    /\ \E i \in DOMAIN last.history :
          /\ last.history[i].field_name = <<"Work items">>
          /\ last.history[i].old_value = <<"a">>

\* C21: a request of refine_story or bulk_action appends a history record for a
\* field of a story only when the stored value of that field changed in the
\* request.
C21_HistoryOnlyForChange ==
    [][(last'.op \in {"refine_story", "bulk_action"} /\ last'.code = 302) =>
          \A i \in DOMAIN last'.history :
              LET h == last'.history[i]
                  s == h.story
              IN /\ s \in DOMAIN stories /\ s \in DOMAIN stories'
                 /\ CASE h.field_name = <<"Title">> -> stories'[s].title # stories[s].title
                      [] h.field_name = <<"Goal">> -> stories'[s].goal # stories[s].goal
                      [] h.field_name = <<"Work items">> ->
                            stories'[s].workitems # stories[s].workitems
                      [] h.field_name = <<"Blocked">> ->
                            stories'[s].blocked # stories[s].blocked
                      [] h.field_name = <<"Archived">> ->
                            stories'[s].archived # stories[s].archived
                      [] h.field_name = <<"Review required">> ->
                            stories'[s].review_required # stories[s].review_required
                      [] h.field_name = <<"Labels">> ->
                            stories'[s].labels # stories[s].labels
                      [] h.field_name \in {<<"Dependency added">>, <<"Dependency removed">>} ->
                            deps' # deps
                      [] OTHER -> vscores'[s] # vscores[s] \/ cscores'[s] # cscores[s]]_vars

\* C22: no story depends on itself and no (story, depends_on) pair is stored more
\* than once; a wbs_add_dependency request that names the same story twice or an
\* existing pair is answered 400.
C22_NoSelfNoDuplicate ==
    /\ \A k \in DOMAIN deps : deps[k].story # deps[k].depends_on
    /\ \A k, j \in DOMAIN deps : deps[k] = deps[j] => k = j
    /\ (last.op = "wbs_add_dependency" /\ last.code = 200) =>
          IntOf(last.out.story_id) # IntOf(last.out.depends_on_id)

EpicArchiving(r) ==
    /\ r.op = "overview" /\ r.code = 302
    /\ r.arg \in {"archive_epic", "unarchive_epic"}

\* C25: archive_epic sets archived on the epic and on every story of the epic;
\* unarchive_epic clears it on the epic and changes no story, so that after
\* archive_epic followed by unarchive_epic of an epic its stories are archived;
\* neither action changes a story of another epic.
C25_ArchiveCascadesUnarchiveDoesNot ==
    [][EpicArchiving(last') =>
          \A e \in DOMAIN epics :
              e = last'.out.epic_id =>
                  /\ e \in DOMAIN epics'
                  /\ epics'[e].archived = (last'.arg = "archive_epic")
                  /\ DOMAIN epic_stories' = DOMAIN epic_stories
                  /\ \A s \in DOMAIN epic_stories :
                        IF epic_stories[s].epic = e /\ last'.arg = "archive_epic"
                        THEN epic_stories'[s] = [epic_stories[s] EXCEPT !.archived = TRUE]
                        ELSE epic_stories'[s] = epic_stories[s]
                  /\ (EpicArchiving(last) /\ last.arg = "archive_epic"
                      /\ last.out.epic_id = e /\ last'.arg = "unarchive_epic")
                        => \A s \in StoriesOfEpic(e) : epic_stories'[s].archived]_vars

\* An epic with a story was unarchived: the epic is not archived, its story still
\* is, and a story of another epic is not archived.
C25_Witness ==
    /\ EpicArchiving(last) /\ last.arg = "unarchive_epic"
    /\ ~epics[last.out.epic_id].archived
    /\ \E s \in StoriesOfEpic(last.out.epic_id) : epic_stories[s].archived
    /\ \E s \in DOMAIN epic_stories :
          /\ epic_stories[s].epic # last.out.epic_id
          /\ ~epic_stories[s].archived

\* Piece names story i (i < 10): after trimming it is the digit of i, possibly
\* after zeros.
NamesStory(piece, i) ==
    LET t == strip(piece)
    IN /\ t # <<>>
       /\ t[Len(t)] = ToString(i)
       /\ \A j \in 1..(Len(t) - 1) : t[j] = "0"

\* The stories the pieces of a story_ids parameter list.
ListedStories(pieces) ==
    {i \in DOMAIN stories : \E k \in DOMAIN pieces : NamesStory(pieces[k], i)}

\* C26: a bulk_action applies its action to the stories listed in story_ids and
\* leaves every other story, with its score rows, unchanged; when story_ids lists
\* no story, or the action is unknown, no story is changed.
C26_BulkChangesListedOnly ==
    [][last'.op = "bulk_action" =>
          /\ \A s \in DOMAIN stories \ ListedStories(last'.out.story_ids) :
                /\ s \in DOMAIN stories'
                /\ stories'[s] = stories[s]
                /\ vscores'[s] = vscores[s] /\ cscores'[s] = cscores[s]
          /\ (ListedStories(last'.out.story_ids) = {} \/ last'.arg \notin BulkActions \ {""})
                => stories' = stories
          /\ \A s \in ListedStories(last'.out.story_ids) :
                LET st == stories[s]
                    reason == strip(last'.out.blocked_reason)
                IN CASE last'.arg = "delete" -> s \notin DOMAIN stories'
                     [] last'.arg = "archive" -> stories'[s] = [st EXCEPT !.archived = TRUE]
                     [] last'.arg = "unarchive" ->
                           stories'[s] = [st EXCEPT !.archived = FALSE]
                     [] last'.arg = "set_review" ->
                           stories'[s] = [st EXCEPT !.review_required = TRUE]
                     [] last'.arg = "clear_review" ->
                           stories'[s] = [st EXCEPT !.review_required = FALSE]
                     [] last'.arg = "set_blocked" ->
                           stories'[s] = IF reason # <<>> THEN [st EXCEPT !.blocked = reason]
                                         ELSE st
                     [] last'.arg = "add_labels" ->
                           stories'[s] = [st EXCEPT !.labels = @ \cup last'.out.label_ids]
                     [] OTHER -> stories'[s] = st]_vars

\* A delete whose story_ids hold '02' and a word removed story 2 and left story
\* 1, which had been archived and blocked in bulk before.
C26_Witness ==
    /\ last.op = "bulk_action" /\ last.arg = "delete"
    /\ last.out.story_ids = << <<"0", "2">>, <<"a">> >>
    /\ DOMAIN stories = {1}
    /\ stories[1].archived /\ stories[1].blocked = <<"B">>
    /\ deps = <<>>

\* C27: the scores_complete flag story_list gives for a story is true exactly
\* when every configured value factor and every configured cost factor has a
\* score row of the story with a defined answer, which for a story with filled
\* texts and no lifecycle field set is when computed_status is 'ready'; a row
\* whose answer is None does not count.
C27_ScoresCompleteIffAllDefined ==
    (last.op = "story_list" /\ last.code = 200) =>
        \A s \in DOMAIN last.out.stories :
            /\ last.out.stories[s].scores_complete
                   = (/\ vfactors \subseteq DefinedIds(vscores[s])
                      /\ cfactors \subseteq DefinedIds(cscores[s]))
            /\ ReadsFactorIds(stories[s]) =>
                   (last.out.stories[s].scores_complete = (computed_status(s) = "ready"))

====
